---- MODULE Spec2Model ----
(***************************************************************************)
(* Apple Health dashboard: the interval correlator (heart rate, distance   *)
(* and energy), the zone-time calculator, the aggregator and the workout   *)
(* extractor of src/src/parser.py, src/src/models.py, src/src/analyzer.py. *)
(*                                                                         *)
(* Conventions.                                                            *)
(*  - A datetime is a whole number of minutes; a timedelta's               *)
(*    total_seconds() / 60.0 is the difference of two such numbers.        *)
(*  - An Optional[...] field is a sequence: <<>> is None, <<v>> is v.      *)
(*  - A Python true division is an exact fraction [num, den] in lowest     *)
(*    terms with den > 0 (float rounding is not modelled).                 *)
(*  - A dict whose iteration order plays no part is a function on its key  *)
(*    set; the ordered zone table is a sequence of entries.                *)
(***************************************************************************)
EXTENDS Integers, Sequences, FiniteSets, TLC

VARIABLES
    pc,                 \* which operation of the scenario has run
    raised,             \* the exception the last operation let escape, or "none"
    workouts,           \* List[Workout]
    hr_records,         \* List[HeartRateRecord]
    distance_records,   \* Dict[datetime, float]
    calorie_records,    \* Dict[datetime, float]
    zone_ranges,        \* Dict[str, Tuple[int, int]], in insertion order
    zone_times,         \* the dict calculate_hr_zone_time returned
    summary,            \* a WorkoutSummary
    overall,            \* the dict calculate_overall_stats returned
    archive,            \* the elements of export.xml, in document order
    args,               \* the arguments of the calls made so far
    result,             \* what the last call returned or raised
    locals              \* the local variables of a loop that runs step by step

vars == <<pc, raised, workouts, hr_records, distance_records, calorie_records,
          zone_ranges, zone_times, summary, overall, archive, args, result, locals>>

----------------------------------------------------------------------------
(* Bounds of the model *)

MaxTime == 2
MaxWorkouts == 1
MaxSamples == 3
MaxGroup == 2
MaxElements == 2
MaxRecords == 2
MaxTail == 3
MaxZoneSamples == 2
TicksPerDay == 2
DaysPerYear == 2
DaysPerMonth == 1
MaxStream == 4
MaxStaged == 2
MaxTop == 2

\* the cadence of root.clear(): 1000 top-level records in extract_workouts and
\* 10000 in the two record extractors, scaled down (the loops test the counter
\* against it and use it for nothing else)
WorkoutClearEvery == 2
RecordClearEvery == 3

Time == 0 .. MaxTime

\* beats per minute of the samples, around the zone bounds of the test suite
BpmValues == {100, 120}

\* increments of the distance and energy samples; float() accepts a sign
DistanceValues == {-2, 2}
CalorieValues == {60}

----------------------------------------------------------------------------
(* Generic helpers *)

None == <<>>
Some(v) == <<v>>
IsNone(o) == o = <<>>
Get(o) == o[1]

RECURSIVE SeqsUpTo(_, _)
SeqsUpTo(S, n) ==
    IF n = 0 THEN {<<>>}
    ELSE LET shorter == SeqsUpTo(S, n - 1)
         IN  shorter \cup {Append(s, x) : s \in {t \in shorter : Len(t) = n - 1}, x \in S}

Abs(x) == IF x < 0 THEN -x ELSE x

RECURSIVE GCD(_, _)
GCD(a, b) == IF b = 0 THEN a ELSE GCD(b, a % b)

\* Python's a / b for b # 0, as an exact fraction in lowest terms
Frac(a, b) ==
    LET g == GCD(Abs(a), Abs(b))
        s == IF b < 0 THEN -1 ELSE 1
    IN  [num |-> (s * a) \div g, den |-> (s * b) \div g]

FracInt(n) == [num |-> n, den |-> 1]
Zero == FracInt(0)
FracAdd(x, y) == Frac(x.num * y.den + y.num * x.den, x.den * y.den)
FracDivInt(x, n) == Frac(x.num, x.den * n)
FracLe(x, y) == x.num * y.den <= y.num * x.den
FracLt(x, y) == x.num * y.den < y.num * x.den

\* the dicts with keys in K and values in V
Dicts(K, V) == UNION {[D -> V] : D \in SUBSET K}

\* sum(v for k, v in d.items() if k in K)
RECURSIVE SumOver(_, _)
SumOver(d, K) ==
    IF K = {} THEN 0
    ELSE LET k == CHOOSE x \in K : TRUE IN d[k] + SumOver(d, K \ {k})

\* sum(), max(), min(), len() over a list of numbers
RECURSIVE SumSeq(_)
SumSeq(s) == IF s = <<>> THEN 0 ELSE Head(s) + SumSeq(Tail(s))

RECURSIVE MaxSeq(_)
MaxSeq(s) ==
    IF Len(s) = 1 THEN s[1]
    ELSE LET m == MaxSeq(Tail(s)) IN IF m > Head(s) THEN m ELSE Head(s)

\* the first of the list taken for its minimum
FirstOfSeq(s) == s[1]

RECURSIVE MinSeq(_)
MinSeq(s) ==
    IF Len(s) = 1 THEN s[1]
    ELSE LET m == MinSeq(Tail(s)) IN IF m < Head(s) THEN m ELSE Head(s)

\* [hr.bpm for hr in s]
Bpms(s) == [i \in 1 .. Len(s) |-> s[i].bpm]

\* list.sort / sorted with key=lambda r: r.timestamp: a stable sort, here as
\* the insertion of each element behind the elements whose key is not larger
RECURSIVE InsertByTimestamp(_, _)
InsertByTimestamp(x, s) ==
    IF s = <<>> THEN <<x>>
    ELSE IF x.timestamp < Head(s).timestamp THEN <<x>> \o s
         ELSE <<Head(s)>> \o InsertByTimestamp(x, Tail(s))

\* no sort: the samples in the order they were supplied
AsSupplied(s) == s

RECURSIVE SortedByTimestamp(_)
SortedByTimestamp(s) ==
    IF s = <<>> THEN <<>>
    ELSE InsertByTimestamp(s[Len(s)], SortedByTimestamp(SubSeq(s, 1, Len(s) - 1)))

----------------------------------------------------------------------------
(* models.py: Workout and HeartRateRecord *)

WorkoutFields ==
    {"start_date", "end_date", "duration_minutes", "distance_miles", "calories",
     "source_name", "workout_type", "gpx_file", "elevation_gain_ft",
     "elevation_loss_ft", "max_elevation_ft", "avg_heart_rate", "max_heart_rate",
     "min_heart_rate"}

WorkoutRequired ==
    {"start_date", "end_date", "duration_minutes", "distance_miles", "calories",
     "source_name"}

\* The generated __init__ accepts exactly the dataclass fields as keywords and
\* needs every field without a default: anything else is a TypeError.
WorkoutAccepts(kwargs) ==
    /\ DOMAIN kwargs \subseteq WorkoutFields
    /\ WorkoutRequired \subseteq DOMAIN kwargs

Arg(kwargs, name, default) == IF name \in DOMAIN kwargs THEN kwargs[name] ELSE default

\* __post_init__ that keeps what it was given
PostInitKeepsNegative(w) == w

\* __post_init__: negative distance and duration are replaced by 0
PostInit(w) ==
    [w EXCEPT !.distance_miles = IF @ < 0 THEN 0 ELSE @,
              !.duration_minutes = IF @ < 0 THEN 0 ELSE @]

\* Workout(**kwargs), for kwargs the constructor accepts.  distance_km is no
\* dataclass field: <<>> says the instance has no such attribute (yet).
Workout(kwargs) ==
    PostInit([start_date        |-> kwargs.start_date,
              end_date          |-> kwargs.end_date,
              duration_minutes  |-> kwargs.duration_minutes,
              distance_miles    |-> kwargs.distance_miles,
              calories          |-> kwargs.calories,
              workout_type      |-> Arg(kwargs, "workout_type", "Cycling"),
              elevation_gain_ft |-> Arg(kwargs, "elevation_gain_ft", None),
              avg_heart_rate    |-> Arg(kwargs, "avg_heart_rate", None),
              max_heart_rate    |-> Arg(kwargs, "max_heart_rate", None),
              min_heart_rate    |-> Arg(kwargs, "min_heart_rate", None),
              distance_km       |-> None])

HeartRateRecord(t, b) == [timestamp |-> t, bpm |-> b]

\* the test suite's way of building a workout: positional/keyword dataclass fields
NewWorkout(s, e, dur, dist, cal) ==
    Workout([start_date |-> s, end_date |-> e, duration_minutes |-> dur,
             distance_miles |-> dist, calories |-> cal, source_name |-> "Apple Watch"])

\* the window with its end excluded
InWindowEndExclusive(w, t) == w.start_date <= t /\ t < w.end_date

\* workout.start_date <= t <= workout.end_date
InWindow(w, t) == w.start_date <= t /\ t <= w.end_date

----------------------------------------------------------------------------
(* models.py: WorkoutSummary, and analyzer.py: calculate_overall_stats *)

\* WorkoutSummary(): every statistic at its dataclass default
DefaultSummary ==
    [total_workouts |-> 0, total_distance_miles |-> 0, total_duration_minutes |-> 0,
     total_calories |-> 0, total_elevation_gain_ft |-> 0,
     avg_distance_miles |-> Zero, avg_duration_minutes |-> Zero, avg_speed_mph |-> Zero,
     avg_calories |-> Zero, avg_elevation_gain_ft |-> Zero,
     max_distance_miles |-> 0, max_duration_minutes |-> 0, max_elevation_gain_ft |-> 0]

\* Workout.avg_speed_mph: distance_miles / duration_hours, 0 without a duration
AvgSpeedMph(w) ==
    IF w.duration_minutes > 0 THEN Frac(w.distance_miles * 60, w.duration_minutes)
    ELSE Zero

\* [w.field for w in ws]
Column(ws, field) == [i \in 1 .. Len(ws) |-> ws[i][field]]

\* absent elevation gains taken as 0
GainsNoneAsZero(ws) ==
    [i \in 1 .. Len(ws) |->
        IF IsNone(ws[i].elevation_gain_ft) THEN 0 ELSE Get(ws[i].elevation_gain_ft)]

\* [w.elevation_gain_ft for w in ws if w.elevation_gain_ft is not None]
ElevationGains(ws) ==
    LET HasGain(w) == ~IsNone(w.elevation_gain_ft)
        with == SelectSeq(ws, HasGain)
    IN  [i \in 1 .. Len(with) |-> Get(with[i].elevation_gain_ft)]

\* the members with a distance above zero only (all of them when there is none)
CountWithDistance(ws) ==
    LET HasDistance(w) == w.distance_miles > 0
        n == Len(SelectSeq(ws, HasDistance))
    IN  IF n = 0 THEN Len(ws) ELSE n

\* self.total_workouts = len(self.workouts)
MemberCount(ws) == Len(ws)

RECURSIVE FracSum(_)
FracSum(s) == IF s = <<>> THEN Zero ELSE FracAdd(Head(s), FracSum(Tail(s)))

\* the mean of the members' own speeds
MeanOfSpeeds(ws, total_distance, total_duration) ==
    FracDivInt(FracSum([i \in 1 .. Len(ws) |-> AvgSpeedMph(ws[i])]), Len(ws))

\* self.total_distance_miles / total_hours, total_hours = total_duration / 60.0
GroupSpeed(ws, total_distance, total_duration) ==
    Frac(total_distance * 60, total_duration)

\* WorkoutSummary.calculate_stats on the summary self with the workouts ws
calculate_stats(self, ws) ==
    IF ws = <<>> THEN self
    ELSE
    LET total_workouts == MemberCount(ws)
        total_distance == SumSeq(Column(ws, "distance_miles"))
        total_duration == SumSeq(Column(ws, "duration_minutes"))
        total_calories == SumSeq(Column(ws, "calories"))
        gains == ElevationGains(ws)
    IN  [self EXCEPT
            !.total_workouts = total_workouts,
            !.total_distance_miles = total_distance,
            !.total_duration_minutes = total_duration,
            !.total_calories = total_calories,
            !.total_elevation_gain_ft = SumSeq(gains),
            !.avg_distance_miles =
                IF total_workouts > 0 THEN Frac(total_distance, total_workouts) ELSE @,
            !.avg_duration_minutes =
                IF total_workouts > 0 THEN Frac(total_duration, total_workouts) ELSE @,
            !.avg_calories =
                IF total_workouts > 0 THEN Frac(total_calories, total_workouts) ELSE @,
            !.avg_elevation_gain_ft =
                IF total_workouts > 0 /\ gains # <<>>
                THEN Frac(SumSeq(gains), Len(gains)) ELSE @,
            !.avg_speed_mph =
                IF total_duration > 0
                THEN GroupSpeed(ws, total_distance, total_duration) ELSE @,
            !.max_distance_miles = MaxSeq(Column(ws, "distance_miles")),
            !.max_duration_minutes = MaxSeq(Column(ws, "duration_minutes")),
            !.max_elevation_gain_ft = IF gains # <<>> THEN MaxSeq(gains) ELSE @]

\* datetime.date(), datetime.year, datetime.month and strftime("%Y-%m-%d") of
\* a time point: the day it lies in, the year of that day, the number of the
\* month within the year, and the text that names the day
Day(t) == t \div TicksPerDay
Year(t) == Day(t) \div DaysPerYear
Month(t) == (Day(t) % DaysPerYear) \div DaysPerMonth + 1
DateStr(t) == Day(t)

\* calculate_overall_stats: an empty dict for no workouts, else the statistics
calculate_overall_stats(ws) ==
    IF ws = <<>> THEN <<>>
    ELSE
    LET st == calculate_stats(DefaultSummary, ws)
        starts == Column(ws, "start_date")
        HasHr(w) == ~IsNone(w.avg_heart_rate)
        workouts_with_hr == SelectSeq(ws, HasHr)
        hr_avgs == [i \in 1 .. Len(workouts_with_hr) |-> Get(workouts_with_hr[i].avg_heart_rate)]
    IN  [total_workouts |-> st.total_workouts,
         total_distance_miles |-> st.total_distance_miles,
         total_duration_hours |-> Frac(st.total_duration_minutes, 60),
         total_calories |-> st.total_calories,
         total_elevation_gain_ft |-> st.total_elevation_gain_ft,
         avg_distance_miles |-> st.avg_distance_miles,
         avg_duration_minutes |-> st.avg_duration_minutes,
         avg_speed_mph |-> st.avg_speed_mph,
         avg_elevation_gain_ft |-> st.avg_elevation_gain_ft,
         max_distance_miles |-> st.max_distance_miles,
         max_duration_minutes |-> st.max_duration_minutes,
         max_elevation_gain_ft |-> st.max_elevation_gain_ft,
         years_active |-> Cardinality({Year(starts[i]) : i \in 1 .. Len(starts)}),
         first_ride_date |-> DateStr(MinSeq(starts)),
         last_ride_date |-> DateStr(MaxSeq(starts)),
         avg_heart_rate |->
             IF workouts_with_hr # <<>>
             THEN Some(FracDivInt(FracSum(hr_avgs), Len(workouts_with_hr))) ELSE None,
         workouts_with_elevation |-> Len(ElevationGains(ws)),
         workouts_with_hr |-> Len(workouts_with_hr)]

----------------------------------------------------------------------------
(* parser.py: match_heart_rate_to_workouts *)

\* the loop body writing zeros when no sample is in the window
MatchOneZeroWhenEmpty(w, hr_sorted) ==
    LET InW(hr) == InWindow(w, hr.timestamp)
        workout_hrs == SelectSeq(hr_sorted, InW)
        bpms == Bpms(workout_hrs)
    IN  IF workout_hrs # <<>>
        THEN [w EXCEPT !.avg_heart_rate = Some(Frac(SumSeq(bpms), Len(bpms))),
                       !.max_heart_rate = Some(MaxSeq(bpms)),
                       !.min_heart_rate = Some(MinSeq(bpms))]
        ELSE [w EXCEPT !.avg_heart_rate = Some(Zero),
                       !.max_heart_rate = Some(0),
                       !.min_heart_rate = Some(0)]

\* the loop body averaging into what an earlier call stored: the mean of the
\* stored average and the samples' mean
MatchOneRunningAverage(w, hr_sorted) ==
    LET InW(hr) == InWindow(w, hr.timestamp)
        workout_hrs == SelectSeq(hr_sorted, InW)
        bpms == Bpms(workout_hrs)
        mean == Frac(SumSeq(bpms), Len(bpms))
    IN  IF workout_hrs # <<>>
        THEN [w EXCEPT !.avg_heart_rate =
                           IF IsNone(@) THEN Some(mean)
                           ELSE Some(FracDivInt(FracAdd(Get(@), mean), 2)),
                       !.max_heart_rate = Some(MaxSeq(bpms)),
                       !.min_heart_rate = Some(MinSeq(bpms))]
        ELSE w

\* the body of the loop, for one workout
MatchOne(w, hr_sorted) ==
    LET InW(hr) == InWindow(w, hr.timestamp)
        workout_hrs == SelectSeq(hr_sorted, InW)
        bpms == Bpms(workout_hrs)
    IN  IF workout_hrs # <<>>
        THEN [w EXCEPT !.avg_heart_rate = Some(Frac(SumSeq(bpms), Len(bpms))),
                       !.max_heart_rate = Some(MaxSeq(bpms)),
                       !.min_heart_rate = Some(MinSeq(bpms))]
        ELSE w

\* the loop as a filter: the workouts that have a sample in their window, updated
MatchKeepingMatched(ws, hrs) ==
    LET hr_records_sorted == SortedByTimestamp(hrs)
        Sampled(w) == \E k \in 1 .. Len(hrs) : InWindow(w, hrs[k].timestamp)
        kept == SelectSeq(ws, Sampled)
    IN  [i \in 1 .. Len(kept) |-> MatchOne(kept[i], hr_records_sorted)]

match_heart_rate_to_workouts(ws, hrs) ==
    LET hr_records_sorted == SortedByTimestamp(hrs)
    IN  [i \in 1 .. Len(ws) |-> MatchOne(ws[i], hr_records_sorted)]

----------------------------------------------------------------------------
(* parser.py: calculate_hr_zone_time *)

Zone(name, min_bpm, max_bpm) == [name |-> name, min_bpm |-> min_bpm, max_bpm |-> max_bpm]

ZoneNames(zr) == {zr[j].name : j \in 1 .. Len(zr)}

\* the inner loop without its break: the last zone, in the table's order, with
\* min_bpm <= bpm < max_bpm
RECURSIVE ScanZonesLastMatch(_, _, _)
ScanZonesLastMatch(zr, bpm, j) ==
    IF j > Len(zr) THEN 0
    ELSE LET later == ScanZonesLastMatch(zr, bpm, j + 1)
         IN  IF later # 0 THEN later
             ELSE IF zr[j].min_bpm <= bpm /\ bpm < zr[j].max_bpm THEN j ELSE 0

\* the inner loop: the first zone, in the table's order, with
\* min_bpm <= bpm < max_bpm, from position j on; 0 when the loop ends unbroken
RECURSIVE ScanZones(_, _, _)
ScanZones(zr, bpm, j) ==
    IF j > Len(zr) THEN 0
    ELSE IF zr[j].min_bpm <= bpm /\ bpm < zr[j].max_bpm THEN j
         ELSE ScanZones(zr, bpm, j + 1)

\* the later sample of the pair taken for the earlier one
NextHrAsCurrent(s, i) == s[i + 1]

\* current_hr = workout_hrs[i]
CurrentHr(s, i) == s[i]

\* the outer loop from index i on (0-based range(len - 1) is 1 .. Len - 1 here)
RECURSIVE AddIntervals(_, _, _, _)
AddIntervals(s, zr, i, times) ==
    IF i > Len(s) - 1 THEN times
    ELSE LET current_hr == CurrentHr(s, i)
             next_hr == s[i + 1]
             time_diff == next_hr.timestamp - current_hr.timestamp
             j == ScanZones(zr, current_hr.bpm, 1)
         IN  AddIntervals(s, zr, i + 1,
                          IF j = 0 THEN times
                          ELSE [times EXCEPT ![zr[j].name] = @ + time_diff])

\* the scan carried on past the last sample: the time from the last sample to the
\* workout's end goes to the last sample's zone
ZoneTimeToWorkoutEnd(hrs, w, zr) ==
    LET InW(hr) == InWindow(w, hr.timestamp)
        workout_hrs == SortedByTimestamp(SelectSeq(hrs, InW))
        zeros == [z \in ZoneNames(zr) |-> 0]
    IN  IF workout_hrs = <<>> THEN zeros
        ELSE AddIntervals(Append(workout_hrs,
                                 HeartRateRecord(w.end_date,
                                                 workout_hrs[Len(workout_hrs)].bpm)),
                          zr, 1, zeros)

calculate_hr_zone_time(hrs, w, zr) ==
    LET InW(hr) == InWindow(w, hr.timestamp)
        workout_hrs == SelectSeq(hrs, InW)
        zeros == [z \in ZoneNames(zr) |-> 0]
    IN  IF workout_hrs = <<>> THEN zeros
        ELSE AddIntervals(SortedByTimestamp(workout_hrs), zr, 1, zeros)

----------------------------------------------------------------------------
(* parser.py: enrich_workouts_with_distance_calories *)

\* the body of the loop, for one workout.  The assignment to workout.distance_km
\* creates that attribute on the instance; distance_miles is not written.
EnrichOne(w, dist, cal) ==
    LET workout_distance == SumOver(dist, {t \in DOMAIN dist : InWindow(w, t)})
        workout_calories == SumOver(cal, {t \in DOMAIN cal : InWindow(w, t)})
        w1 == IF workout_distance > 0
              THEN [w EXCEPT !.distance_km = Some(workout_distance)] ELSE w
    IN  IF workout_calories > 0 THEN [w1 EXCEPT !.calories = workout_calories] ELSE w1

\* the workouts after the loop (they are modified in place)
EnrichLoop(ws, dist, cal) == [i \in 1 .. Len(ws) |-> EnrichOne(ws[i], dist, cal)]

\* the logging code after the loop reads w.distance_km of every workout: an
\* AttributeError on the first one that has no such attribute
EnrichRaises(ws) ==
    IF \E i \in 1 .. Len(ws) : IsNone(ws[i].distance_km)
    THEN "AttributeError" ELSE "none"

----------------------------------------------------------------------------
(* parser.py: parse_datetime and extract_workouts *)

\* An attribute's text, by its shape: a date-time "YYYY-MM-DD HH:MM:SS" (val: the
\* time it names) followed by the text tz, a number (val), the empty string, or
\* anything else.  tz is written piece by piece: " " is a space, "+" and "-" the
\* signs, "dddd" four digits, "x" any other run of characters.
DateText(t, tz) == [kind |-> "date", val |-> t, tz |-> tz]
NumText(n) == [kind |-> "num", val |-> n, tz |-> <<>>]
EmptyText == [kind |-> "empty", val |-> 0, tz |-> <<>>]
JunkText == [kind |-> "junk", val |-> 0, tz |-> <<>>]

\* no offset, and the offsets of the test suite: " -0800" and " +0500"
NoOffset == <<>>
MinusOffset == <<" ", "-", "dddd">>
PlusOffset == <<" ", "+", "dddd">>

Ok(v) == [ok |-> TRUE, val |-> v, exc |-> "none"]
Raise(e) == [ok |-> FALSE, val |-> 0, exc |-> e]

\* '+' in date_str or date_str.count('-') > 2: the date-time itself has two '-'
\* and no '+', so the test tells whether what follows it holds a sign
HasSign(text) == \E k \in 1 .. Len(text.tz) : text.tz[k] \in {"+", "-"}

\* date_str.rsplit(' ', 1)[0] of a date-time followed by tz: what stands before
\* the last space.  That is the date-time and the part of tz before its last
\* space; when tz has no space, the last space is the one inside the date-time.
BeforeLastSpace(tz) ==
    LET spaces == {k \in 1 .. Len(tz) : tz[k] = " "}
    IN  IF spaces = {} THEN [whole |-> FALSE, rest |-> <<>>]
        ELSE LET last == CHOOSE k \in spaces : \A j \in spaces : j <= k
             IN  [whole |-> TRUE, rest |-> SubSeq(tz, 1, last - 1)]

\* datetime.strptime(s, "%Y-%m-%d %H:%M:%S") of a date-time followed by rest:
\* anything left over is unconverted data
strptime(t, rest) == IF rest = <<>> THEN Ok(t) ELSE Raise("ValueError")

\* parse_datetime(elem.get(...)): None has no `in`, so a missing attribute is a
\* TypeError.  With a sign the last word is cut off (rsplit) and the rest is
\* parsed; without one the whole text is parsed.  Any text strptime refuses is a
\* ValueError.
parse_datetime(date_str) ==
    IF IsNone(date_str) THEN Raise("TypeError")
    ELSE LET text == Get(date_str)
         IN  IF text.kind # "date" THEN Raise("ValueError")
             ELSE IF HasSign(text)
                  THEN LET date_part == BeforeLastSpace(text.tz)
                       IN  IF date_part.whole THEN strptime(text.val, date_part.rest)
                           ELSE Raise("ValueError")
                  ELSE strptime(text.val, text.tz)

\* float(elem.get(...)) of an attribute that is there
float(text) == IF text.kind = "num" THEN Ok(text.val) ELSE Raise("ValueError")

\* if elem.get(name): the attribute is there and is not the empty string
Truthy(attr) == ~IsNone(attr) /\ Get(attr).kind # "empty"

\* value * 1.60934
TimesMilesToKm(v) == Frac(v * 160934, 100000)

WORKOUT_TYPES == {"HKWorkoutActivityTypeCycling"}

\* the keyword arguments of the Workout(...) call
WorkoutCallKeywords(start_date, end_date, duration, distance_km, calories, workout_type) ==
    [start_date |-> start_date, end_date |-> end_date, duration_minutes |-> duration,
     distance_km |-> distance_km, calories |-> calories, source_name |-> "Apple Watch",
     workout_type |-> workout_type]

\* the try block for one Workout element of a requested type: the Workout, or
\* the exception the except clause catches
ParseWorkout(elem) ==
    LET start_date == parse_datetime(elem.startDate)
        end_date == parse_datetime(elem.endDate)
        explicit == IF Truthy(elem.duration) THEN float(Get(elem.duration)) ELSE Ok(0)
        duration == IF Truthy(elem.duration) THEN explicit.val
                    ELSE end_date.val - start_date.val
        total == IF Truthy(elem.totalDistance) THEN float(Get(elem.totalDistance)) ELSE Ok(0)
        distance_km == IF Truthy(elem.totalDistance) /\ elem.distanceUnit = "mi"
                       THEN TimesMilesToKm(total.val) ELSE total.val
        energy == IF Truthy(elem.totalEnergyBurned)
                  THEN float(Get(elem.totalEnergyBurned)) ELSE Ok(0)
        kwargs == WorkoutCallKeywords(start_date.val, end_date.val, duration, distance_km,
                                      energy.val, elem.workoutActivityType)
    IN  IF ~start_date.ok THEN start_date
        ELSE IF ~end_date.ok THEN end_date
        ELSE IF ~explicit.ok THEN explicit
        ELSE IF ~total.ok THEN total
        ELSE IF ~energy.ok THEN energy
        ELSE IF ~WorkoutAccepts(kwargs) THEN Raise("TypeError")
        ELSE Ok(Workout(kwargs))

\* the loop over the elements: a Workout element of a requested type is appended
\* when the try block ends, and skipped when it raises
RECURSIVE extract_workouts(_, _)
extract_workouts(xml, workout_types) ==
    IF xml = <<>> THEN <<>>
    ELSE LET elem == xml[Len(xml)]
             before == extract_workouts(SubSeq(xml, 1, Len(xml) - 1), workout_types)
         IN  IF elem.tag = "Workout" /\ elem.workoutActivityType \in workout_types
             THEN LET parsed == ParseWorkout(elem)
                  IN  IF parsed.ok THEN Append(before, parsed.val) ELSE before
             ELSE before

----------------------------------------------------------------------------
(* State of the scenarios *)

\* what a scenario does not use
Unused ==
    /\ raised = "none"
    /\ zone_times = <<>>
    /\ summary = DefaultSummary
    /\ overall = <<>>
    /\ args = <<>>
    /\ result = <<>>
    /\ locals = <<>>

HRSamples == {HeartRateRecord(t, b) : t \in Time, b \in BpmValues}

\* workouts as the tests build them, with any start and end
PlainWorkouts == {NewWorkout(s, e, 30, 5, 250) : s \in Time, e \in Time}

----------------------------------------------------------------------------
(* Heart-rate correlation: match_heart_rate_to_workouts on any workouts and samples *)

InitHR ==
    /\ pc = "ready"
    /\ workouts \in SeqsUpTo(PlainWorkouts, MaxWorkouts)
    /\ hr_records \in SeqsUpTo(HRSamples, MaxSamples)
    /\ distance_records = <<>>
    /\ calorie_records = <<>>
    /\ zone_ranges = <<>>
    /\ archive = <<>>
    /\ Unused

MatchHeartRate ==
    /\ pc \in {"ready", "matched"}
    /\ workouts' = match_heart_rate_to_workouts(workouts, hr_records)
    /\ pc' = "matched"
    /\ UNCHANGED <<raised, hr_records, distance_records, calorie_records, zone_ranges,
                   zone_times, summary, overall, archive, args, result, locals>>

NextHR == MatchHeartRate

SpecHR == InitHR /\ [][NextHR]_vars

\* the positions of the samples inside the inclusive window of workout w
SamplesIn(w) ==
    {k \in 1 .. Len(hr_records) :
        /\ w.start_date <= hr_records[k].timestamp
        /\ hr_records[k].timestamp <= w.end_date}

RECURSIVE BpmTotal(_)
BpmTotal(K) ==
    IF K = {} THEN 0
    ELSE LET k == CHOOSE x \in K : TRUE IN hr_records[k].bpm + BpmTotal(K \ {k})

\* C1: after match_heart_rate_to_workouts, a workout with at least one sample in
\* [start_date, end_date] (both ends inclusive) has avg_heart_rate = the mean,
\* max_heart_rate = the maximum and min_heart_rate = the minimum of the bpm of
\* exactly the samples in that window; samples outside it play no part.
C1_WindowStats ==
    pc = "matched" =>
        \A i \in 1 .. Len(workouts) :
            LET w == workouts[i]
                K == SamplesIn(w)
            IN  K # {} =>
                    /\ ~IsNone(w.avg_heart_rate)
                    /\ ~IsNone(w.max_heart_rate)
                    /\ ~IsNone(w.min_heart_rate)
                    /\ Get(w.avg_heart_rate).num * Cardinality(K)
                           = BpmTotal(K) * Get(w.avg_heart_rate).den
                    /\ \E k \in K : hr_records[k].bpm = Get(w.max_heart_rate)
                    /\ \A k \in K : hr_records[k].bpm <= Get(w.max_heart_rate)
                    /\ \E k \in K : hr_records[k].bpm = Get(w.min_heart_rate)
                    /\ \A k \in K : hr_records[k].bpm >= Get(w.min_heart_rate)

\* a matched workout with two different readings in its window, one of them at
\* the window's end, and a third reading outside the window
C1_Witness ==
    /\ pc = "matched"
    /\ \E i \in 1 .. Len(workouts) :
          LET w == workouts[i]
              K == SamplesIn(w)
          IN  /\ \E j, k \in K : hr_records[j].bpm # hr_records[k].bpm
              /\ \E k \in K : hr_records[k].timestamp = w.end_date
              /\ \E k \in 1 .. Len(hr_records) : k \notin K
              /\ Get(w.min_heart_rate) < Get(w.max_heart_rate)

\* C2: after match_heart_rate_to_workouts, a workout whose inclusive window holds
\* no sample still has avg, max and min heart rate unset (None), never 0.
C2_NoSampleLeavesUnset ==
    pc = "matched" =>
        \A i \in 1 .. Len(workouts) :
            SamplesIn(workouts[i]) = {} =>
                /\ workouts[i].avg_heart_rate = None
                /\ workouts[i].max_heart_rate = None
                /\ workouts[i].min_heart_rate = None

\* a matched workout with samples, none of them in its window
C2_Witness ==
    /\ pc = "matched"
    /\ hr_records # <<>>
    /\ \E i \in 1 .. Len(workouts) :
          /\ workouts[i].start_date <= workouts[i].end_date
          /\ SamplesIn(workouts[i]) = {}
          /\ workouts[i].avg_heart_rate = None

----------------------------------------------------------------------------
(* Distance/energy correlation: enrich_workouts_with_distance_calories *)

\* workouts with and without a total of their own
TotalledWorkouts ==
    {NewWorkout(s, e, 30, d[1], d[2]) : s \in Time, e \in Time, d \in {<<0, 0>>, <<5, 250>>}}

InitEnrich ==
    /\ pc = "ready"
    /\ workouts \in SeqsUpTo(TotalledWorkouts, MaxWorkouts)
    /\ hr_records = <<>>
    /\ distance_records \in Dicts(Time, DistanceValues)
    /\ calorie_records \in Dicts(Time, CalorieValues)
    /\ zone_ranges = <<>>
    /\ archive = <<>>
    /\ Unused

EnrichDistanceCalories ==
    /\ pc = "ready"
    /\ workouts' = EnrichLoop(workouts, distance_records, calorie_records)
    /\ raised' = EnrichRaises(workouts')
    /\ pc' = "enriched"
    /\ UNCHANGED <<hr_records, distance_records, calorie_records, zone_ranges,
                   zone_times, summary, overall, archive, args, result, locals>>

NextEnrich == EnrichDistanceCalories

SpecEnrich == InitEnrich /\ [][NextEnrich]_vars

\* the sums of the distance and energy samples in the inclusive window of w
DistanceIn(w) ==
    SumOver(distance_records,
            {t \in DOMAIN distance_records : w.start_date <= t /\ t <= w.end_date})
CaloriesIn(w) ==
    SumOver(calorie_records,
            {t \in DOMAIN calorie_records : w.start_date <= t /\ t <= w.end_date})

\* C3: after enrich_workouts_with_distance_calories, a workout whose window holds
\* distance samples with a non-zero sum has distance_miles equal to that sum, and
\* likewise calories equal to a non-zero energy sum, each workout on its own.
\* Stated for the sums above zero, the plainest case of the claim
\* (samples are increments); a sum below zero is left out of the statement.
C3_SumsReplace ==
    pc = "enriched" =>
        \A i \in 1 .. Len(workouts) :
            LET w == workouts[i]
            IN  /\ DistanceIn(w) > 0 => w.distance_miles = DistanceIn(w)
                /\ CaloriesIn(w) > 0 => w.calories = CaloriesIn(w)

\* C4: when the distance (energy) samples in a workout's window sum to zero, or
\* none is in the window, the call returns without raising and the workout's
\* distance (calories) is what it was before the call.
C4_ZeroSumKeeps ==
    [][EnrichDistanceCalories =>
          \A i \in 1 .. Len(workouts) :
              /\ DistanceIn(workouts[i]) = 0 =>
                    /\ raised' = "none"
                    /\ workouts'[i].distance_miles = workouts[i].distance_miles
              /\ CaloriesIn(workouts[i]) = 0 =>
                    /\ raised' = "none"
                    /\ workouts'[i].calories = workouts[i].calories]_vars

----------------------------------------------------------------------------
(* Zone time: calculate_hr_zone_time for one workout, any samples, some tables *)

\* the table of the test suite, one with a gap, and an overlapping one in both orders
ZoneTables ==
    {<<Zone("Zone 2", 90, 120), Zone("Zone 3", 120, 150), Zone("Zone 4", 150, 180)>>,
     <<Zone("Zone 2", 90, 120), Zone("Zone 4", 150, 180)>>,
     <<Zone("Zone 2", 90, 130), Zone("Zone 3", 120, 150)>>,
     <<Zone("Zone 3", 120, 150), Zone("Zone 2", 90, 130)>>}

InitZone ==
    /\ pc = "ready"
    /\ workouts \in {<<w>> : w \in PlainWorkouts}
    /\ hr_records \in SeqsUpTo(HRSamples, MaxSamples)
    /\ distance_records = <<>>
    /\ calorie_records = <<>>
    /\ zone_ranges \in ZoneTables
    /\ archive = <<>>
    /\ Unused

CalculateHrZoneTime ==
    /\ pc = "ready"
    /\ zone_times' = calculate_hr_zone_time(hr_records, workouts[1], zone_ranges)
    /\ pc' = "zoned"
    /\ UNCHANGED <<raised, workouts, hr_records, distance_records, calorie_records,
                   zone_ranges, summary, overall, archive, args, result, locals>>

NextZone == CalculateHrZoneTime

SpecZone == InitZone /\ [][NextZone]_vars

\* The in-window samples in time order, told by rank: the sample at position k of
\* hr_records comes after the in-window samples that are earlier, or as early and
\* supplied before it.
RankIn(w, k) ==
    Cardinality({j \in SamplesIn(w) :
                    \/ hr_records[j].timestamp < hr_records[k].timestamp
                    \/ hr_records[j].timestamp = hr_records[k].timestamp /\ j <= k})

AtRank(w, r) == hr_records[CHOOSE k \in SamplesIn(w) : RankIn(w, k) = r]

\* zone j holds bpm / is the first zone of the table to hold it
Holds(j, bpm) == zone_ranges[j].min_bpm <= bpm /\ bpm < zone_ranges[j].max_bpm
HoldsFirst(j, bpm) == Holds(j, bpm) /\ \A h \in 1 .. j - 1 : ~Holds(h, bpm)

\* no heart rate is in two zones of the table: of any two zones, one ends where
\* the other begins, or before
DisjointZones ==
    \A j, h \in 1 .. Len(zone_ranges) :
        j # h => \/ zone_ranges[j].max_bpm <= zone_ranges[h].min_bpm
                 \/ zone_ranges[h].max_bpm <= zone_ranges[j].min_bpm

\* elapsed minutes of the adjacent pairs from rank r on whose earlier sample is
\* in zone j (first: counted for the first zone holding it only)
RECURSIVE HeldMinutes(_, _, _, _)
HeldMinutes(w, j, r, first) ==
    IF r >= Cardinality(SamplesIn(w)) THEN 0
    ELSE (IF (IF first THEN HoldsFirst(j, AtRank(w, r).bpm) ELSE Holds(j, AtRank(w, r).bpm))
          THEN AtRank(w, r + 1).timestamp - AtRank(w, r).timestamp ELSE 0)
         + HeldMinutes(w, j, r + 1, first)

\* C5: calculate_hr_zone_time returns, for every configured zone, the sum over the
\* adjacent pairs of the time-sorted in-window samples of the minutes between them
\* for which the earlier sample's bpm falls in that zone, the zone of a bpm being
\* the first configured zone that holds it (for a table of disjoint zones: any
\* zone that holds it); with fewer than two samples in the window every
\* configured zone is in the result with 0 minutes.
C5_StepHold ==
    pc = "zoned" =>
        LET w == workouts[1]
        IN  /\ DOMAIN zone_times = {zone_ranges[j].name : j \in 1 .. Len(zone_ranges)}
            /\ \A j \in 1 .. Len(zone_ranges) :
                  /\ zone_times[zone_ranges[j].name] = HeldMinutes(w, j, 1, TRUE)
                  /\ DisjointZones =>
                        zone_times[zone_ranges[j].name] = HeldMinutes(w, j, 1, FALSE)
                  /\ Cardinality(SamplesIn(w)) < 2 => zone_times[zone_ranges[j].name] = 0

\* three samples supplied out of time order, in two zones of the test suite's
\* table, so that two zones get minutes
C5_Witness ==
    /\ pc = "zoned"
    /\ Len(zone_ranges) = 3
    /\ Cardinality(SamplesIn(workouts[1])) = 3
    /\ hr_records[1].timestamp > hr_records[2].timestamp
    /\ zone_times["Zone 2"] > 0
    /\ zone_times["Zone 3"] > 0

\* one sample in the window: every zone is there with 0 minutes
C5_WitnessLone ==
    /\ pc = "zoned"
    /\ Cardinality(SamplesIn(workouts[1])) = 1
    /\ Len(hr_records) > 1
    /\ \A j \in 1 .. Len(zone_ranges) : zone_times[zone_ranges[j].name] = 0

----------------------------------------------------------------------------
(* Aggregation: WorkoutSummary.calculate_stats and calculate_overall_stats on a group *)

\* members with or without duration, distance, energy and elevation gain; the
\* constructor takes the negative inputs too
GroupWorkouts ==
    {Workout([start_date |-> 0, end_date |-> 0, duration_minutes |-> dur,
              distance_miles |-> dist, calories |-> cal, source_name |-> "Apple Watch",
              elevation_gain_ft |-> gain]) :
        dur \in {-5, 0, 15, 45}, dist \in {-1, 0, 10}, cal \in {0, 250},
        gain \in {None, Some(100), Some(300)}}

InitStats ==
    /\ pc = "ready"
    /\ workouts \in SeqsUpTo(GroupWorkouts, MaxGroup)
    /\ hr_records = <<>>
    /\ distance_records = <<>>
    /\ calorie_records = <<>>
    /\ zone_ranges = <<>>
    /\ archive = <<>>
    /\ Unused

\* summary = WorkoutSummary(workouts=...); summary.calculate_stats()
CalculateStats ==
    /\ pc = "ready"
    /\ summary' = calculate_stats(summary, workouts)
    /\ pc' = "summarised"
    /\ UNCHANGED <<raised, workouts, hr_records, distance_records, calorie_records,
                   zone_ranges, zone_times, overall, archive, args, result, locals>>

CalculateOverallStats ==
    /\ pc = "ready"
    /\ overall' = calculate_overall_stats(workouts)
    /\ pc' = "overall"
    /\ UNCHANGED <<raised, workouts, hr_records, distance_records, calorie_records,
                   zone_ranges, zone_times, summary, archive, args, result, locals>>

NextStats == CalculateStats \/ CalculateOverallStats

SpecStats == InitStats /\ [][NextStats]_vars

Members == 1 .. Len(workouts)

RECURSIVE Total(_, _)
Total(I, field) ==
    IF I = {} THEN 0
    ELSE LET i == CHOOSE x \in I : TRUE IN workouts[i][field] + Total(I \ {i}, field)

\* x is the quotient a / b
IsQuotient(x, a, b) == x.den > 0 /\ x.num * b = a * x.den

\* C6: for a non-empty group calculate_stats sets avg_speed_mph to (sum of the
\* distances) / (sum of the durations in hours), not to the mean of the members'
\* speeds; with a summed duration of 0 nothing is divided and it stays 0.
C6_RatioOfSums ==
    pc = "summarised" /\ workouts # <<>> =>
        /\ Total(Members, "duration_minutes") > 0 =>
              IsQuotient(summary.avg_speed_mph, Total(Members, "distance_miles") * 60,
                         Total(Members, "duration_minutes"))
        /\ Total(Members, "duration_minutes") = 0 => summary.avg_speed_mph = Zero

\* the group of section 8: equal distances, durations 15 and 45, where the ratio
\* of sums (20) is not the mean of the speeds (26.67)
C6_Witness ==
    /\ pc = "summarised"
    /\ Len(workouts) = 2
    /\ workouts[1].distance_miles = 10 /\ workouts[1].duration_minutes = 15
    /\ workouts[2].distance_miles = 10 /\ workouts[2].duration_minutes = 45
    /\ summary.avg_speed_mph = FracInt(20)
    /\ summary.avg_speed_mph # MeanOfSpeeds(workouts, 20, 60)

\* C7: for a non-empty group total_workouts is the number of members, the total
\* distance, duration and calories are the sums over all members, and the three
\* averages are those totals divided by the number of members (a member with
\* zero distance counts in the denominator).
C7_TotalsAndMeans ==
    pc = "summarised" /\ workouts # <<>> =>
        /\ summary.total_workouts = Cardinality(Members)
        /\ summary.total_distance_miles = Total(Members, "distance_miles")
        /\ summary.total_duration_minutes = Total(Members, "duration_minutes")
        /\ summary.total_calories = Total(Members, "calories")
        /\ IsQuotient(summary.avg_distance_miles, Total(Members, "distance_miles"),
                      Cardinality(Members))
        /\ IsQuotient(summary.avg_duration_minutes, Total(Members, "duration_minutes"),
                      Cardinality(Members))
        /\ IsQuotient(summary.avg_calories, Total(Members, "calories"),
                      Cardinality(Members))

\* a summarised group of two with one member of zero distance: the mean is 5, not 10
C7_Witness ==
    /\ pc = "summarised"
    /\ Len(workouts) = 2
    /\ workouts[1].distance_miles = 0
    /\ workouts[2].distance_miles = 10
    /\ summary.avg_distance_miles = FracInt(5)

WithGain == {i \in Members : workouts[i].elevation_gain_ft # None}

RECURSIVE GainTotal(_)
GainTotal(I) ==
    IF I = {} THEN 0
    ELSE LET i == CHOOSE x \in I : TRUE
         IN  workouts[i].elevation_gain_ft[1] + GainTotal(I \ {i})

\* C8: a workout without elevation gain is left out of every elevation statistic:
\* the total sums the members that carry a value, the average is that sum divided
\* by the number of members that carry one, the maximum is taken over them, and
\* all three stay 0 when no member carries one.
C8_ElevationPresentOnly ==
    pc = "summarised" /\ workouts # <<>> =>
        /\ summary.total_elevation_gain_ft = GainTotal(WithGain)
        /\ WithGain # {} =>
              /\ IsQuotient(summary.avg_elevation_gain_ft, GainTotal(WithGain),
                            Cardinality(WithGain))
              /\ \E i \in WithGain :
                    workouts[i].elevation_gain_ft[1] = summary.max_elevation_gain_ft
              /\ \A i \in WithGain :
                    workouts[i].elevation_gain_ft[1] <= summary.max_elevation_gain_ft
        /\ WithGain = {} =>
              /\ summary.total_elevation_gain_ft = 0
              /\ summary.avg_elevation_gain_ft = Zero
              /\ summary.max_elevation_gain_ft = 0

\* a summarised group of two, one member with a gain and one without
C8_Witness ==
    /\ pc = "summarised"
    /\ Len(workouts) = 2
    /\ Cardinality(WithGain) = 1
    /\ summary.avg_elevation_gain_ft = FracInt(summary.total_elevation_gain_ft)
    /\ summary.total_elevation_gain_ft > 0

\* C9: aggregating zero workouts never fails and yields an all-zero summary:
\* calculate_stats on an empty list leaves every numeric field at 0, and
\* calculate_overall_stats([]) returns a summary whose numeric fields are all
\* there, at zero.
C9_EmptyGroup ==
    /\ pc = "summarised" /\ workouts = <<>> => summary = DefaultSummary /\ raised = "none"
    /\ pc = "overall" /\ workouts = <<>> =>
          /\ raised = "none"
          /\ \A k \in {"total_workouts", "total_distance_miles", "total_calories",
                        "total_elevation_gain_ft", "max_distance_miles",
                        "max_duration_minutes", "max_elevation_gain_ft"} :
                k \in DOMAIN overall /\ overall[k] = 0

----------------------------------------------------------------------------
(* Extraction: extract_workouts on an archive of Workout elements *)

WorkoutElements ==
    {[tag |-> "Workout", workoutActivityType |-> ty, startDate |-> sd, endDate |-> ed,
      duration |-> du, totalDistance |-> di[1], distanceUnit |-> di[2],
      totalEnergyBurned |-> di[3]] :
        ty \in {"HKWorkoutActivityTypeCycling", "HKWorkoutActivityTypeRunning"},
        sd \in {Some(DateText(0, MinusOffset)), Some(JunkText)},
        ed \in {Some(DateText(t, MinusOffset)) : t \in Time},
        du \in {None, Some(EmptyText), Some(NumText(15))},
        di \in {<<None, "", None>>, <<Some(NumText(5)), "mi", Some(NumText(250))>>}}

InitExtract ==
    /\ pc = "ready"
    /\ workouts = <<>>
    /\ hr_records = <<>>
    /\ distance_records = <<>>
    /\ calorie_records = <<>>
    /\ zone_ranges = <<>>
    /\ archive \in SeqsUpTo(WorkoutElements, MaxElements)
    /\ Unused

ExtractWorkouts ==
    /\ pc = "ready"
    /\ workouts' = extract_workouts(archive, WORKOUT_TYPES)
    /\ pc' = "extracted"
    /\ UNCHANGED <<raised, hr_records, distance_records, calorie_records, zone_ranges,
                   zone_times, summary, overall, archive, args, result, locals>>

NextExtract == ExtractWorkouts

SpecExtract == InitExtract /\ [][NextExtract]_vars

\* a Workout element of a requested type with well-formed dates and a duration
\* attribute that is missing, empty or a number
WellFormed(e) ==
    /\ e.tag = "Workout"
    /\ e.workoutActivityType \in WORKOUT_TYPES
    /\ e.startDate # None /\ e.startDate[1].kind = "date"
    /\ e.endDate # None /\ e.endDate[1].kind = "date"
    /\ e.duration # None => e.duration[1].kind \in {"num", "empty"}

\* the duration the claim gives the workout of element e
DurationLaw(e) ==
    IF e.duration # None /\ e.duration[1].kind = "num" THEN e.duration[1].val
    ELSE e.endDate[1].val - e.startDate[1].val

\* C10: every Workout extract_workouts returns has duration_minutes equal to the
\* record's duration attribute when it is present, else to (end_date - start_date)
\* in minutes; as the tests of the claim state it: a well-formed record of a
\* requested type yields a returned Workout with that duration.
C10_DurationLaw ==
    pc = "extracted" =>
        \A k \in 1 .. Len(archive) :
            WellFormed(archive[k]) =>
                \E i \in 1 .. Len(workouts) :
                    /\ workouts[i].start_date = archive[k].startDate[1].val
                    /\ workouts[i].end_date = archive[k].endDate[1].val
                    /\ workouts[i].duration_minutes = DurationLaw(archive[k])

----------------------------------------------------------------------------
(* Life of a workout: construction, then the correlation stages in any order *)

\* what a caller may hand the constructor: any start and end, a duration and a
\* distance on either side of zero
ConstructorInputs ==
    {[start_date |-> s, end_date |-> e, duration_minutes |-> dur, distance_miles |-> dist,
      calories |-> 0, source_name |-> "Apple Watch"] :
        s \in Time, e \in Time, dur \in {-5, 30}, dist \in {-1, 5}}

InitLife ==
    /\ pc = <<>>
    /\ raised = "none"
    /\ workouts = <<>>
    /\ hr_records \in {<<>>} \cup {<<HeartRateRecord(0, b)>> : b \in BpmValues}
    /\ distance_records \in Dicts({0}, DistanceValues)
    /\ calorie_records \in Dicts({0}, CalorieValues)
    /\ zone_ranges = <<>>
    /\ zone_times = <<>>
    /\ summary = DefaultSummary
    /\ overall = <<>>
    /\ archive = <<>>
    /\ args = <<>>
    /\ result = <<>>
    /\ locals = <<>>

\* workouts.append(Workout(**kwargs)), before any stage has run
ConstructWorkout ==
    /\ pc = <<>>
    /\ Len(workouts) < MaxWorkouts
    /\ \E kwargs \in ConstructorInputs :
          /\ WorkoutAccepts(kwargs)
          /\ workouts' = Append(workouts, Workout(kwargs))
          /\ args' = Append(args, kwargs)
    /\ UNCHANGED <<pc, raised, hr_records, distance_records, calorie_records, zone_ranges,
                   zone_times, summary, overall, archive, result, locals>>

\* match_heart_rate_to_workouts(workouts, hr_records), once
CorrelateHeartRate ==
    /\ raised = "none"
    /\ \A k \in 1 .. Len(pc) : pc[k] # "heart_rate"
    /\ workouts' = match_heart_rate_to_workouts(workouts, hr_records)
    /\ pc' = Append(pc, "heart_rate")
    /\ UNCHANGED <<raised, hr_records, distance_records, calorie_records, zone_ranges,
                   zone_times, summary, overall, archive, args, result, locals>>

\* enrich_workouts_with_distance_calories(workouts, distance_records,
\* calorie_records), once; an exception it lets escape ends the run
CorrelateDistanceEnergy ==
    /\ raised = "none"
    /\ \A k \in 1 .. Len(pc) : pc[k] # "distance_energy"
    /\ workouts' = EnrichLoop(workouts, distance_records, calorie_records)
    /\ raised' = EnrichRaises(workouts')
    /\ pc' = Append(pc, "distance_energy")
    /\ UNCHANGED <<hr_records, distance_records, calorie_records, zone_ranges,
                   zone_times, summary, overall, archive, args, result, locals>>

NextLife == ConstructWorkout \/ CorrelateHeartRate \/ CorrelateDistanceEnergy

SpecLife == InitLife /\ [][NextLife]_vars

\* max(0, x)
ClampedAtZero(x) == IF x < 0 THEN 0 ELSE x

\* C11: every Workout has distance >= 0 and duration_minutes >= 0 from
\* construction onward: the constructor does not reject a negative distance or
\* duration but stores 0 for it (and any other value as given), and neither
\* heart-rate matching nor distance/energy enrichment makes either value
\* negative afterwards (nor the distance attribute enrichment adds).
C11_RangeClamp ==
    /\ Len(workouts) = Len(args)
    /\ \A i \in 1 .. Len(workouts) :
          /\ workouts[i].distance_miles >= 0
          /\ workouts[i].duration_minutes >= 0
          /\ workouts[i].distance_miles = ClampedAtZero(args[i].distance_miles)
          /\ workouts[i].duration_minutes = ClampedAtZero(args[i].duration_minutes)
          /\ workouts[i].distance_km # None => workouts[i].distance_km[1] >= 0

\* a workout built from a negative distance and a negative duration, after both
\* correlation stages have worked on it (heart rate matched, energy replaced)
C11_Witness ==
    /\ Len(pc) = 2
    /\ \E i \in 1 .. Len(workouts) :
          /\ args[i].distance_miles < 0
          /\ args[i].duration_minutes < 0
          /\ workouts[i].distance_miles = 0
          /\ workouts[i].duration_minutes = 0
          /\ workouts[i].avg_heart_rate # None
          /\ workouts[i].calories > 0

----------------------------------------------------------------------------
(* Extraction: which records extract_workouts returns, and in what order *)

\* the well-formed Workout records of a requested type, in archive order
WellFormedRequested ==
    LET Good(e) ==
            /\ WellFormed(e)
            /\ e.totalDistance # None => e.totalDistance[1].kind \in {"num", "empty"}
            /\ e.totalEnergyBurned # None => e.totalEnergyBurned[1].kind \in {"num", "empty"}
    IN  SelectSeq(archive, Good)

\* C12: extract_workouts(xml_file, workout_types) returns exactly one Workout for
\* each well-formed Workout record of the archive whose workoutActivityType is in
\* workout_types, none for a record of another type, and the returned list is in
\* archive order: the i-th returned Workout is the i-th such record.
C12_OnePerRecordInOrder ==
    pc = "extracted" =>
        /\ Len(workouts) = Len(WellFormedRequested)
        /\ \A i \in 1 .. Len(workouts) :
              /\ workouts[i].workout_type \in WORKOUT_TYPES
              /\ i <= Len(WellFormedRequested) =>
                    /\ workouts[i].start_date = WellFormedRequested[i].startDate[1].val
                    /\ workouts[i].end_date = WellFormedRequested[i].endDate[1].val
                    /\ workouts[i].workout_type = WellFormedRequested[i].workoutActivityType

----------------------------------------------------------------------------
(* parser.py: extract_heart_rate_records and extract_distance_and_calories *)

\* a <Record .../> element; an attribute that is not there is None
RecordElement(type, startDate, value, unit) ==
    [tag |-> "Record", type |-> type, startDate |-> startDate, value |-> value,
     unit |-> unit]

\* a try block left by `continue`: nothing is stored and nothing was raised
Filtered == [ok |-> FALSE, val |-> 0, exc |-> "none"]

\* the range with its end excluded
OutsideRangeEndExclusive(timestamp, start_date, end_date) ==
    \/ ~IsNone(start_date) /\ timestamp < Get(start_date)
    \/ ~IsNone(end_date) /\ timestamp >= Get(end_date)

\* start_date and timestamp < start_date, or end_date and timestamp > end_date
\* (a datetime is always true, so `start_date and` asks whether it was given)
OutsideRange(timestamp, start_date, end_date) ==
    \/ ~IsNone(start_date) /\ timestamp < Get(start_date)
    \/ ~IsNone(end_date) /\ timestamp > Get(end_date)

\* float(elem.get("value", 0))
FloatValue(elem) == IF IsNone(elem.value) THEN Ok(0) ELSE float(Get(elem.value))

\* the try block for one heart-rate Record
ParseHeartRate(elem, start_date, end_date) ==
    LET timestamp == parse_datetime(elem.startDate)
        bpm == FloatValue(elem)
    IN  IF ~timestamp.ok THEN timestamp
        ELSE IF OutsideRange(timestamp.val, start_date, end_date) THEN Filtered
        ELSE IF ~bpm.ok THEN bpm
        ELSE Ok(HeartRateRecord(timestamp.val, bpm.val))

\* the loop over the elements: a heart-rate Record is appended when its try block
\* reaches the end
RECURSIVE extract_heart_rate_records(_, _, _)
extract_heart_rate_records(xml, start_date, end_date) ==
    IF xml = <<>> THEN <<>>
    ELSE LET elem == xml[Len(xml)]
             before == extract_heart_rate_records(SubSeq(xml, 1, Len(xml) - 1),
                                                  start_date, end_date)
         IN  IF elem.tag = "Record" /\ elem.type = "HKQuantityTypeIdentifierHeartRate"
             THEN LET parsed == ParseHeartRate(elem, start_date, end_date)
                  IN  IF parsed.ok THEN Append(before, parsed.val) ELSE before
             ELSE before

\* if unit == "mi": value *= 1.60934; elif unit == "m": value /= 1000.0
ConvertDistance(value, unit) ==
    IF unit = "mi" THEN TimesMilesToKm(value)
    ELSE IF unit = "m" THEN Frac(value, 1000)
    ELSE FracInt(value)

\* if unit == "Cal": pass; elif unit == "cal": value /= 1000.0
ConvertEnergy(value, unit) ==
    IF unit = "Cal" THEN FracInt(value)
    ELSE IF unit = "cal" THEN Frac(value, 1000)
    ELSE FracInt(value)

\* the try block for one distance or energy Record, up to the store
ParseQuantity(elem, start_date, end_date) ==
    LET timestamp == parse_datetime(elem.startDate)
        value == FloatValue(elem)
    IN  IF ~timestamp.ok THEN timestamp
        ELSE IF OutsideRange(timestamp.val, start_date, end_date) THEN Filtered
        ELSE IF ~value.ok THEN value
        ELSE Ok([timestamp |-> timestamp.val, value |-> value.val])

\* d[k] = v
DictSet(d, k, v) == [x \in DOMAIN d \cup {k} |-> IF x = k THEN v ELSE d[x]]

\* the loop over the elements, returning (distance_records, calorie_records)
RECURSIVE extract_distance_and_calories(_, _, _)
extract_distance_and_calories(xml, start_date, end_date) ==
    IF xml = <<>> THEN [distance_records |-> <<>>, calorie_records |-> <<>>]
    ELSE LET elem == xml[Len(xml)]
             before == extract_distance_and_calories(SubSeq(xml, 1, Len(xml) - 1),
                                                     start_date, end_date)
             parsed == ParseQuantity(elem, start_date, end_date)
         IN  IF elem.tag # "Record" THEN before
             ELSE IF elem.type = "HKQuantityTypeIdentifierDistanceCycling" /\ parsed.ok
             THEN [before EXCEPT !.distance_records =
                      DictSet(@, parsed.val.timestamp,
                              ConvertDistance(parsed.val.value, elem.unit))]
             ELSE IF elem.type = "HKQuantityTypeIdentifierActiveEnergyBurned" /\ parsed.ok
             THEN [before EXCEPT !.calorie_records =
                      DictSet(@, parsed.val.timestamp,
                              ConvertEnergy(parsed.val.value, elem.unit))]
             ELSE before

----------------------------------------------------------------------------
(* Record extraction: both extractors on an archive of records, with and
   without a date range *)

\* heart-rate, distance and energy records, well-formed and not, a record of
\* another type, and a Workout element
ArchiveElements ==
    {RecordElement("HKQuantityTypeIdentifierHeartRate", Some(DateText(t, MinusOffset)),
                   Some(NumText(120)), "count/min") : t \in Time}
    \cup {RecordElement("HKQuantityTypeIdentifierHeartRate", sd[1], sd[2], "count/min") :
            sd \in {<<None, Some(NumText(135))>>,
                    <<Some(JunkText), Some(NumText(135))>>,
                    <<Some(DateText(0, NoOffset)), Some(JunkText)>>,
                    <<Some(DateText(0, PlusOffset)), None>>}}
    \cup {RecordElement("HKQuantityTypeIdentifierDistanceCycling",
                        Some(DateText(t, MinusOffset)), Some(NumText(3)), u) :
            t \in Time, u \in {"km", "mi"}}
    \cup {RecordElement("HKQuantityTypeIdentifierDistanceCycling",
                        Some(DateText(0, MinusOffset)), v, "m") :
            v \in {Some(NumText(3)), Some(EmptyText)}}
    \cup {RecordElement("HKQuantityTypeIdentifierActiveEnergyBurned",
                        sd, Some(NumText(50)), u) :
            sd \in {Some(DateText(0, MinusOffset)), Some(JunkText)}, u \in {"Cal", "cal"}}
    \cup {RecordElement("HKQuantityTypeIdentifierStepCount",
                        Some(DateText(0, MinusOffset)), Some(NumText(120)), "count")}
    \cup {[tag |-> "Workout", workoutActivityType |-> "HKWorkoutActivityTypeCycling",
           startDate |-> Some(DateText(0, MinusOffset)),
           endDate |-> Some(DateText(0, MinusOffset)), duration |-> None,
           totalDistance |-> None, distanceUnit |-> "", totalEnergyBurned |-> None]}

InitRecords ==
    /\ pc = "ready"
    /\ raised = "none"
    /\ workouts = <<>>
    /\ hr_records = <<>>
    /\ distance_records = <<>>
    /\ calorie_records = <<>>
    /\ zone_ranges = <<>>
    /\ zone_times = <<>>
    /\ summary = DefaultSummary
    /\ overall = <<>>
    /\ archive \in SeqsUpTo(ArchiveElements, MaxRecords)
    /\ args \in {[start_date |-> s, end_date |-> e] :
                    s \in {None} \cup {Some(t) : t \in Time},
                    e \in {None} \cup {Some(t) : t \in Time}}
    /\ result = <<>>
    /\ locals = <<>>

\* hr_records = extract_heart_rate_records(xml_file, start_date, end_date)
ExtractHeartRateRecords ==
    /\ pc = "ready"
    /\ hr_records' = extract_heart_rate_records(archive, args.start_date, args.end_date)
    /\ pc' = "heart_rate_extracted"
    /\ UNCHANGED <<raised, workouts, distance_records, calorie_records, zone_ranges,
                   zone_times, summary, overall, archive, args, result, locals>>

\* distance_records, calorie_records = extract_distance_and_calories(xml_file,
\* start_date, end_date)
ExtractDistanceAndCalories ==
    /\ pc = "ready"
    /\ LET both == extract_distance_and_calories(archive, args.start_date, args.end_date)
       IN  /\ distance_records' = both.distance_records
           /\ calorie_records' = both.calorie_records
    /\ pc' = "quantities_extracted"
    /\ UNCHANGED <<raised, workouts, hr_records, zone_ranges, zone_times, summary,
                   overall, archive, args, result, locals>>

NextRecords == ExtractHeartRateRecords \/ ExtractDistanceAndCalories

SpecRecords == InitRecords /\ [][NextRecords]_vars


\* archive[k] is a record of the given type (Workout elements have no type)
IsRecordOf(k, type) == archive[k].tag = "Record" /\ archive[k].type = type

\* archive[k] has a date-time with a signed offset or none, and a number as value
HasTimeAndNumber(k) ==
    /\ archive[k].startDate # None
    /\ archive[k].startDate[1].kind = "date"
    /\ archive[k].startDate[1].tz \in {NoOffset, MinusOffset, PlusOffset}
    /\ archive[k].value # None
    /\ archive[k].value[1].kind = "num"

TimeOf(k) == archive[k].startDate[1].val

\* the time t is inside the range the call was given
InRange(t) ==
    /\ args.start_date # None => args.start_date[1] <= t
    /\ args.end_date # None => t <= args.end_date[1]

\* archive[k] is a well-formed distance sample inside the range, the only
\* distance sample of its time
LoneDistanceSample(k) ==
    /\ IsRecordOf(k, "HKQuantityTypeIdentifierDistanceCycling")
    /\ HasTimeAndNumber(k)
    /\ InRange(TimeOf(k))
    /\ \A j \in 1 .. Len(archive) :
          (j # k /\ IsRecordOf(j, "HKQuantityTypeIdentifierDistanceCycling")
                 /\ HasTimeAndNumber(j)) => TimeOf(j) # TimeOf(k)

\* | x - a / b | < 1e-2, for b > 0
WithinHundredth(x, a, b) ==
    LET d == x.num * b - a * x.den
    IN  (IF d < 0 THEN -d ELSE d) * 100 < x.den * b

\* C13: distances are normalised to miles: a distance sample given with unit km
\* is stored as value / 1.60934 (within 1e-2) and one given with unit mi is
\* stored unchanged (stated here for extract_distance_and_calories).
C13_StoredInMiles ==
    pc = "quantities_extracted" =>
        \A k \in 1 .. Len(archive) :
            LoneDistanceSample(k) =>
                /\ TimeOf(k) \in DOMAIN distance_records
                /\ archive[k].unit = "km" =>
                      WithinHundredth(distance_records[TimeOf(k)],
                                      archive[k].value[1].val * 100000, 160934)
                /\ archive[k].unit = "mi" =>
                      distance_records[TimeOf(k)] = FracInt(archive[k].value[1].val)

----------------------------------------------------------------------------
(* Extraction: a record that fails to parse *)

\* a Workout record of a requested type whose try block cannot succeed: a
\* timestamp that is missing or not a date-time, or a duration that is no number
FailsToParse(e) ==
    /\ e.tag = "Workout"
    /\ e.workoutActivityType \in WORKOUT_TYPES
    /\ \/ e.startDate = None \/ e.startDate[1].kind # "date"
       \/ e.endDate = None \/ e.endDate[1].kind # "date"
       \/ e.duration # None /\ e.duration[1].kind = "junk"

\* C14: a single record of the requested type that fails to parse is skipped
\* without raising, and every other well-formed record of the archive, before and
\* after it, still appears in the output (stated here for extract_workouts).
C14_FailureSkipsOneRecord ==
    (pc = "extracted" /\ \E k \in 1 .. Len(archive) : FailsToParse(archive[k])) =>
        /\ raised = "none"
        /\ \A k \in 1 .. Len(archive) :
              ~FailsToParse(archive[k]) /\ WellFormed(archive[k]) =>
                  \E i \in 1 .. Len(workouts) :
                      /\ workouts[i].start_date = archive[k].startDate[1].val
                      /\ workouts[i].end_date = archive[k].endDate[1].val
        /\ \A i \in 1 .. Len(workouts) :
              \E k \in 1 .. Len(archive) :
                  /\ WellFormed(archive[k])
                  /\ workouts[i].end_date = archive[k].endDate[1].val

----------------------------------------------------------------------------
(* Record extraction: what extract_heart_rate_records returns *)

\* a heart-rate record with a readable timestamp inside the range the call was
\* given, and a value that is a number or is left out
ReadableHeartRateInRange(e) ==
    /\ e.tag = "Record"
    /\ e.type = "HKQuantityTypeIdentifierHeartRate"
    /\ e.startDate # None
    /\ e.startDate[1].kind = "date"
    /\ e.startDate[1].tz \in {NoOffset, MinusOffset, PlusOffset}
    /\ InRange(e.startDate[1].val)
    /\ e.value # None => e.value[1].kind = "num"

\* C15: extract_heart_rate_records(xml_file, start_date, end_date) returns exactly
\* the (readable) heart-rate records of the archive whose timestamp t satisfies
\* start_date <= t <= end_date, a bound that is not given not restricting, in
\* archive order, and never a record of another type.
C15_HeartRateInRange ==
    pc = "heart_rate_extracted" =>
        LET expected == SelectSeq(archive, ReadableHeartRateInRange)
        IN  /\ Len(hr_records) = Len(expected)
            /\ \A i \in 1 .. Len(hr_records) :
                  i <= Len(expected) =>
                      /\ hr_records[i].timestamp = expected[i].startDate[1].val
                      /\ hr_records[i].bpm =
                            (IF expected[i].value = None THEN 0
                             ELSE expected[i].value[1].val)

\* a range with both bounds and two heart-rate records, one at the end of the
\* range, which is returned, and one outside it, which is not
C15_Witness ==
    /\ pc = "heart_rate_extracted"
    /\ args.start_date # None /\ args.end_date # None
    /\ Len(archive) = 2
    /\ \A k \in 1 .. 2 : IsRecordOf(k, "HKQuantityTypeIdentifierHeartRate")
                         /\ HasTimeAndNumber(k)
    /\ Len(hr_records) = 1
    /\ hr_records[1].timestamp = args.end_date[1]
    /\ hr_records[1].timestamp > args.start_date[1]

\* no range and two heart-rate records around a distance record: both are
\* returned, later time first as in the archive
C15_WitnessOrder ==
    /\ pc = "heart_rate_extracted"
    /\ args.start_date = None /\ args.end_date = None
    /\ Len(archive) = MaxRecords
    /\ IsRecordOf(1, "HKQuantityTypeIdentifierHeartRate")
    /\ IsRecordOf(Len(archive), "HKQuantityTypeIdentifierHeartRate")
    /\ Len(hr_records) = 2
    /\ hr_records[1].timestamp > hr_records[2].timestamp

----------------------------------------------------------------------------
(* parse_datetime on a text: a date-time followed by anything, or no date-time *)

\* the pieces a text may go on with after its date-time
TailPieces == {" ", "+", "-", "dddd", "x"}

DateStrings ==
    {DateText(t, tz) : t \in Time, tz \in SeqsUpTo(TailPieces, MaxTail)}
    \cup {JunkText, EmptyText}

InitParse ==
    /\ pc = "ready"
    /\ raised = "none"
    /\ workouts = <<>>
    /\ hr_records = <<>>
    /\ distance_records = <<>>
    /\ calorie_records = <<>>
    /\ zone_ranges = <<>>
    /\ zone_times = <<>>
    /\ summary = DefaultSummary
    /\ overall = <<>>
    /\ archive = <<>>
    /\ args \in {[date_str |-> text] : text \in DateStrings}
    /\ result = <<>>
    /\ locals = <<>>

\* result = parse_datetime(date_str), or the exception it raises
ParseDatetime ==
    /\ pc = "ready"
    /\ result' = parse_datetime(Some(args.date_str))
    /\ raised' = result'.exc
    /\ pc' = "parsed"
    /\ UNCHANGED <<workouts, hr_records, distance_records, calorie_records, zone_ranges,
                   zone_times, summary, overall, archive, args, locals>>

NextParse == ParseDatetime

SpecParse == InitParse /\ [][NextParse]_vars

\* the text is 'YYYY-MM-DD HH:MM:SS', alone or followed by a space and a signed
\* 4-digit offset
OfTheForm(text) ==
    /\ text.kind = "date"
    /\ text.tz \in {<<>>, <<" ", "+", "dddd">>, <<" ", "-", "dddd">>}

\* C16: parse_datetime maps a text 'YYYY-MM-DD HH:MM:SS', optionally followed by
\* a space and a signed 4-digit offset, to the naive date-time of its first part,
\* whatever the offset; any text not of that form raises ValueError.
C16_OffsetDiscardedElseValueError ==
    pc = "parsed" =>
        /\ OfTheForm(args.date_str) =>
              result.ok /\ result.val = args.date_str.val /\ raised = "none"
        /\ ~OfTheForm(args.date_str) => ~result.ok /\ raised = "ValueError"

----------------------------------------------------------------------------
(* Overall statistics: calculate_overall_stats on workouts of several days and
   years, with and without heart-rate data *)

\* start times over two years
StartTimes == 0 .. 2 * DaysPerYear * TicksPerDay - 1

\* workouts as match_heart_rate_to_workouts leaves them: with an average heart
\* rate, or without
DatedWorkouts ==
    {Workout([start_date |-> s, end_date |-> s, duration_minutes |-> 30,
              distance_miles |-> 5, calories |-> 250, source_name |-> "Apple Watch",
              avg_heart_rate |-> hr]) :
        s \in StartTimes, hr \in {None, Some(FracInt(100)), Some(Frac(275, 2))}}

InitOverall ==
    /\ pc = "ready"
    /\ workouts \in SeqsUpTo(DatedWorkouts, MaxGroup)
    /\ hr_records = <<>>
    /\ distance_records = <<>>
    /\ calorie_records = <<>>
    /\ zone_ranges = <<>>
    /\ archive = <<>>
    /\ Unused

NextOverall == CalculateOverallStats

SpecOverall == InitOverall /\ [][NextOverall]_vars

WithHr == {i \in Members : workouts[i].avg_heart_rate # None}

RECURSIVE HrTotal(_)
HrTotal(I) ==
    IF I = {} THEN Zero
    ELSE LET i == CHOOSE x \in I : TRUE
         IN  FracAdd(workouts[i].avg_heart_rate[1], HrTotal(I \ {i}))

\* C17: for a non-empty workout list calculate_overall_stats reports years_active
\* as the number of distinct start years, first/last ride as the (day of the)
\* earliest/latest workout start_date, and avg_heart_rate as the unweighted mean
\* of avg_heart_rate over the workouts that have one, or None when none has.
C17_OverallStats ==
    pc = "overall" /\ workouts # <<>> =>
        /\ overall.years_active =
              Cardinality({y \in 0 .. 2 : \E i \in Members :
                              /\ y * DaysPerYear * TicksPerDay <= workouts[i].start_date
                              /\ workouts[i].start_date < (y + 1) * DaysPerYear * TicksPerDay})
        /\ \E i \in Members :
              /\ \A j \in Members : workouts[i].start_date <= workouts[j].start_date
              /\ overall.first_ride_date * TicksPerDay <= workouts[i].start_date
              /\ workouts[i].start_date < (overall.first_ride_date + 1) * TicksPerDay
        /\ \E i \in Members :
              /\ \A j \in Members : workouts[i].start_date >= workouts[j].start_date
              /\ overall.last_ride_date * TicksPerDay <= workouts[i].start_date
              /\ workouts[i].start_date < (overall.last_ride_date + 1) * TicksPerDay
        /\ WithHr = {} => overall.avg_heart_rate = None
        /\ WithHr # {} =>
              /\ overall.avg_heart_rate # None
              /\ overall.avg_heart_rate[1].den > 0
              /\ overall.avg_heart_rate[1].num * HrTotal(WithHr).den * Cardinality(WithHr)
                    = HrTotal(WithHr).num * overall.avg_heart_rate[1].den

\* two workouts of different years, the later one supplied first, one of them
\* without heart-rate data
C17_Witness ==
    /\ pc = "overall"
    /\ Len(workouts) = 2
    /\ workouts[1].start_date > workouts[2].start_date
    /\ overall.years_active = 2
    /\ overall.first_ride_date < overall.last_ride_date
    /\ Cardinality(WithHr) = 1
    /\ overall.avg_heart_rate = Some(Frac(275, 2))

----------------------------------------------------------------------------
(* analyzer.py: calculate_hr_zones *)

\* one entry of zone_definitions: zone name -> (min_pct, max_pct), in insertion
\* order; the fractions are exact
ZoneDefinition(name, min_pct, max_pct) ==
    [name |-> name, min_pct |-> min_pct, max_pct |-> max_pct]

\* int(max_heart_rate * pct): the product cut off towards zero
IntOfProduct(max_heart_rate, pct) ==
    LET n == max_heart_rate * pct.num
    IN  IF n >= 0 THEN n \div pct.den ELSE -((-n) \div pct.den)

\* every zone bounded by its own fraction
MaxBpmAlwaysScaled(max_heart_rate, max_pct) == IntOfProduct(max_heart_rate, max_pct)

\* int(max_heart_rate * max_pct) if max_pct < 1.0 else 999
MaxBpm(max_heart_rate, max_pct) ==
    IF FracLt(max_pct, FracInt(1)) THEN IntOfProduct(max_heart_rate, max_pct) ELSE 999

\* bpm_ranges: the percentage ranges as BPM ranges, in the order of the table
BpmRanges(max_heart_rate, zone_definitions) ==
    [j \in 1 .. Len(zone_definitions) |->
        Zone(zone_definitions[j].name,
             IntOfProduct(max_heart_rate, zone_definitions[j].min_pct),
             MaxBpm(max_heart_rate, zone_definitions[j].max_pct))]

\* HeartRateZone(zone_name, min_bpm, max_bpm), time_minutes at its default
HeartRateZone(zone_name, min_bpm, max_bpm) ==
    [zone_name |-> zone_name, min_bpm |-> min_bpm, max_bpm |-> max_bpm,
     time_minutes |-> 0]

\* the loop with `=` for `+=`: each zone's time_minutes is what
\* calculate_hr_zone_time finds for the last workout
RECURSIVE KeepLastWorkoutZoneTimes(_, _, _, _, _)
KeepLastWorkoutZoneTimes(ws, hrs, bpm_ranges, i, hr_zones) ==
    IF i > Len(ws) THEN hr_zones
    ELSE LET times == calculate_hr_zone_time(hrs, ws[i], bpm_ranges)
         IN  KeepLastWorkoutZoneTimes(ws, hrs, bpm_ranges, i + 1,
                [z \in DOMAIN hr_zones |->
                    [hr_zones[z] EXCEPT !.time_minutes = times[z]]])

\* the loop over the workouts from index i on: each zone's time_minutes grows by
\* what calculate_hr_zone_time finds for the workout
RECURSIVE AddWorkoutZoneTimes(_, _, _, _, _)
AddWorkoutZoneTimes(ws, hrs, bpm_ranges, i, hr_zones) ==
    IF i > Len(ws) THEN hr_zones
    ELSE LET times == calculate_hr_zone_time(hrs, ws[i], bpm_ranges)
         IN  AddWorkoutZoneTimes(ws, hrs, bpm_ranges, i + 1,
                [z \in DOMAIN hr_zones |->
                    [hr_zones[z] EXCEPT !.time_minutes = @ + times[z]]])

calculate_hr_zones(ws, hrs, max_heart_rate, zone_definitions) ==
    LET bpm_ranges == BpmRanges(max_heart_rate, zone_definitions)
        hr_zones == [z \in ZoneNames(bpm_ranges) |->
                        LET j == CHOOSE k \in 1 .. Len(bpm_ranges) : bpm_ranges[k].name = z
                        IN  HeartRateZone(z, bpm_ranges[j].min_bpm, bpm_ranges[j].max_bpm)]
    IN  AddWorkoutZoneTimes(ws, hrs, bpm_ranges, 1, hr_zones)

----------------------------------------------------------------------------
(* Zones of all workouts: calculate_hr_zones on some tables of fractions *)

\* the shape of config.HR_ZONES, a table whose top zone ends below 100%, one whose
\* top zone lies inside an earlier zone, and one whose top zone ends above 100%
ZoneDefinitionTables ==
    {<<ZoneDefinition("Zone 1", Zero, Frac(6, 10)),
       ZoneDefinition("Zone 3", Frac(6, 10), Frac(9, 10)),
       ZoneDefinition("Zone 5", Frac(9, 10), FracInt(1))>>,
     <<ZoneDefinition("Zone 1", Zero, Frac(6, 10)),
       ZoneDefinition("Zone 5", Frac(6, 10), Frac(95, 100))>>,
     <<ZoneDefinition("Zone 4", Frac(5, 10), FracInt(1)),
       ZoneDefinition("Zone 5", Frac(9, 10), FracInt(1))>>,
     <<ZoneDefinition("Zone 1", Zero, Frac(5, 10)),
       ZoneDefinition("Zone 5", Frac(5, 10), Frac(11, 10))>>}

\* reference maxima: config.MAX_HEART_RATE and one on either side
MaxHeartRates == {100, 185, 200}

\* samples at rest, near the maximum and beyond any heart rate
ZoneSamples == {HeartRateRecord(t, b) : t \in Time, b \in {100, 190, 999}}

\* workouts from time 0 to any end
WorkoutsFromZero == {NewWorkout(0, e, 30, 5, 250) : e \in Time}

InitZones ==
    /\ pc = "ready"
    /\ raised = "none"
    /\ workouts \in SeqsUpTo(WorkoutsFromZero, MaxWorkouts)
    /\ hr_records \in SeqsUpTo(ZoneSamples, MaxZoneSamples)
    /\ distance_records = <<>>
    /\ calorie_records = <<>>
    /\ zone_ranges = <<>>
    /\ zone_times = <<>>
    /\ summary = DefaultSummary
    /\ overall = <<>>
    /\ archive = <<>>
    /\ args \in {[max_heart_rate |-> m, zone_definitions |-> zd] :
                    m \in MaxHeartRates, zd \in ZoneDefinitionTables}
    /\ result = <<>>
    /\ locals = <<>>

\* hr_zones = calculate_hr_zones(workouts, hr_records, max_heart_rate,
\* zone_definitions); zone_ranges keeps the bpm_ranges it worked with
CalculateHrZones ==
    /\ pc = "ready"
    /\ result' = calculate_hr_zones(workouts, hr_records, args.max_heart_rate,
                                    args.zone_definitions)
    /\ zone_ranges' = BpmRanges(args.max_heart_rate, args.zone_definitions)
    /\ pc' = "zones"
    /\ UNCHANGED <<raised, workouts, hr_records, distance_records, calorie_records,
                   zone_times, summary, overall, archive, args, locals>>

NextZones == CalculateHrZones

SpecZones == InitZones /\ [][NextZones]_vars


\* the top zone: the last one configured
TopName == args.zone_definitions[Len(args.zone_definitions)].name

\* an earlier zone of the table, with the bounds the result gives it, holds bpm
EarlierZoneHolds(bpm) ==
    \E h \in 1 .. Len(args.zone_definitions) - 1 :
        LET z == result[args.zone_definitions[h].name]
        IN  z.min_bpm <= bpm /\ bpm < z.max_bpm

\* elapsed minutes of the adjacent pairs of w's time-sorted in-window samples,
\* from rank r on, whose earlier sample has lo <= bpm, bpm < hi unless hi is
\* None, and, when unheld is asked for, a bpm that no earlier zone holds
RECURSIVE MinutesFrom(_, _, _, _, _)
MinutesFrom(w, r, lo, hi, unheld) ==
    IF r >= Cardinality(SamplesIn(w)) THEN 0
    ELSE (IF /\ lo <= AtRank(w, r).bpm
             /\ hi # None => AtRank(w, r).bpm < hi[1]
             /\ unheld => ~EarlierZoneHolds(AtRank(w, r).bpm)
          THEN AtRank(w, r + 1).timestamp - AtRank(w, r).timestamp ELSE 0)
         + MinutesFrom(w, r + 1, lo, hi, unheld)

\* the same over the workouts from index i on
RECURSIVE MinutesOfAll(_, _, _, _)
MinutesOfAll(i, lo, hi, unheld) ==
    IF i > Len(workouts) THEN 0
    ELSE MinutesFrom(workouts[i], 1, lo, hi, unheld) + MinutesOfAll(i + 1, lo, hi, unheld)

----------------------------------------------------------------------------
(* Zone time: one zone per interval, the first in configured order *)

\* elapsed minutes of the adjacent pairs from rank r on whose earlier sample is
\* held by zone j; with shared: by zone j and by a zone configured before it
RECURSIVE PairMinutes(_, _, _, _)
PairMinutes(w, j, r, shared) ==
    IF r >= Cardinality(SamplesIn(w)) THEN 0
    ELSE (IF /\ Holds(j, AtRank(w, r).bpm)
             /\ shared => \E h \in 1 .. j - 1 : Holds(h, AtRank(w, r).bpm)
          THEN AtRank(w, r + 1).timestamp - AtRank(w, r).timestamp ELSE 0)
         + PairMinutes(w, j, r + 1, shared)

\* elapsed minutes of the adjacent pairs from rank r on whose earlier sample is
\* held by at least one zone of the table
RECURSIVE MinutesInSomeZone(_, _)
MinutesInSomeZone(w, r) ==
    IF r >= Cardinality(SamplesIn(w)) THEN 0
    ELSE (IF \E j \in 1 .. Len(zone_ranges) : Holds(j, AtRank(w, r).bpm)
          THEN AtRank(w, r + 1).timestamp - AtRank(w, r).timestamp ELSE 0)
         + MinutesInSomeZone(w, r + 1)

RECURSIVE ZoneTimesTotal(_)
ZoneTimesTotal(j) ==
    IF j > Len(zone_ranges) THEN 0
    ELSE zone_times[zone_ranges[j].name] + ZoneTimesTotal(j + 1)

\* the table in the opposite order
Reversed(zr) == [j \in 1 .. Len(zr) |-> zr[Len(zr) + 1 - j]]

\* C20: in calculate_hr_zone_time each adjacent-pair interval is credited to at
\* most one zone, the first in configured order whose range min_bpm <= bpm <
\* max_bpm contains the earlier sample's bpm: all zones together get the minutes
\* of the pairs that some zone holds, each once, and a zone gets the minutes of
\* the pairs it holds less those an earlier zone holds as well.
C20_FirstMatchOnly ==
    pc = "zoned" =>
        LET w == workouts[1]
        IN  /\ ZoneTimesTotal(1) = MinutesInSomeZone(w, 1)
            /\ \A j \in 1 .. Len(zone_ranges) :
                  zone_times[zone_ranges[j].name]
                      = PairMinutes(w, j, 1, FALSE) - PairMinutes(w, j, 1, TRUE)

\* overlapping zones and an interval both hold: the later zone gets none of it,
\* and the same table in the opposite order gives another result
C20_Witness ==
    /\ pc = "zoned"
    /\ ~DisjointZones
    /\ Len(zone_ranges) = 2
    /\ PairMinutes(workouts[1], 2, 1, TRUE) > 0
    /\ zone_times[zone_ranges[2].name] = 0
    /\ zone_times[zone_ranges[1].name] > 0
    /\ calculate_hr_zone_time(hr_records, workouts[1], Reversed(zone_ranges)) # zone_times

----------------------------------------------------------------------------
(* main.py: main, the pipeline over one export archive *)

InitMain ==
    /\ pc = "step1"
    /\ raised = "none"
    /\ workouts = <<>>
    /\ hr_records = <<>>
    /\ distance_records = <<>>
    /\ calorie_records = <<>>
    /\ zone_ranges = <<>>
    /\ zone_times = <<>>
    /\ summary = DefaultSummary
    /\ overall = <<>>
    /\ archive \in SeqsUpTo(WorkoutElements, MaxElements)
    /\ args \in {[export_zip_exists |-> z, export_xml_exists |-> x] :
                    z \in BOOLEAN, x \in BOOLEAN}
    /\ result = <<>>
    /\ locals = <<>>

\* Step 1, extract_export_data(): FileNotFoundError without the export zip
ExtractExportData ==
    /\ pc = "step1"
    /\ IF args.export_zip_exists
       THEN pc' = "step2" /\ raised' = raised
       ELSE pc' = "failed" /\ raised' = "FileNotFoundError"
    /\ UNCHANGED <<workouts, hr_records, distance_records, calorie_records, zone_ranges,
                   zone_times, summary, overall, archive, args, result, locals>>

\* Step 2, workouts = parse_workouts(), the ingest stage (config.START_DATE and
\* END_DATE are None: no filter), and the test that follows it: without workouts
\* main returns, with workouts it goes on to step 3.  result is the list of the
\* stages that have run.
ParseWorkouts ==
    /\ pc = "step2"
    /\ IF args.export_xml_exists
       THEN /\ workouts' = extract_workouts(archive, WORKOUT_TYPES)
            /\ result' = Append(result, "ingest")
            /\ pc' = IF workouts' = <<>> THEN "returned" ELSE "step3"
            /\ raised' = raised
       ELSE /\ pc' = "failed"
            /\ raised' = "FileNotFoundError"
            /\ UNCHANGED <<workouts, result>>
    /\ UNCHANGED <<hr_records, distance_records, calorie_records, zone_ranges,
                   zone_times, summary, overall, archive, args, locals>>

\* Steps 3 to 7 (elevation, distance/energy, heart rate, analysis, report) start
\* from pc = "step3" only; extract_workouts hands parse_workouts no workout, so
\* no run of main gets there.
NextMain == ExtractExportData \/ ParseWorkouts

SpecMain == InitMain /\ [][NextMain]_vars

\* C19: in every run of the pipeline the stages execute in the total order
\* ingest, heart-rate correlation, distance/energy correlation, zone-time,
\* aggregation, each after the one before has finished: a run that has ended
\* without an error, on an archive that holds a well-formed record of a requested
\* type, has run these stages, in this order.
C19_StagesInTotalOrder ==
    (/\ pc \in {"returned", "done"}
     /\ raised = "none"
     /\ \E k \in 1 .. Len(archive) : WellFormed(archive[k])) =>
        result = <<"ingest", "heart_rate", "distance_energy", "zone_time", "aggregation">>

----------------------------------------------------------------------------
(* Zone time: the minutes of all zones against the span of the samples *)

\* the time from the earliest to the latest sample in the window of w, 0 when
\* the window is empty
Span(w) ==
    IF SamplesIn(w) = {} THEN 0
    ELSE LET ts == {hr_records[k].timestamp : k \in SamplesIn(w)}
         IN  (CHOOSE t \in ts : \A u \in ts : u <= t)
                 - (CHOOSE t \in ts : \A u \in ts : t <= u)

\* the sample at rank r of the time order is held by some zone of the table
Matched(w, r) == \E j \in 1 .. Len(zone_ranges) : Holds(j, AtRank(w, r).bpm)

\* time passes between the sample at rank r and the next one
Elapses(w, r) == AtRank(w, r + 1).timestamp > AtRank(w, r).timestamp

\* C21 as stated: the minutes of all zones are at most the span of the in-window
\* samples, and equal to it exactly when every sample but the last is matched
\* by some zone.
C21_FullSpanIffAllMatched ==
    pc = "zoned" =>
        LET w == workouts[1]
            n == Cardinality(SamplesIn(w))
        IN  /\ ZoneTimesTotal(1) <= Span(w)
            /\ ZoneTimesTotal(1) = Span(w) <=> \A r \in 1 .. n - 1 : Matched(w, r)

\* C21: for every call of calculate_hr_zone_time the minutes summed over all zones
\* are at most the span between the earliest and the latest in-window sample (so
\* nothing after the last sample, up to the workout's end, is attributed), no
\* zone gets a negative time, and the sum equals the span exactly when every
\* sample that is followed by a later-stamped one is matched by some zone; the
\* interval of an unmatched sample is dropped, the others are kept.
C21_FullSpanIffElapsedMatched ==
    pc = "zoned" =>
        LET w == workouts[1]
            n == Cardinality(SamplesIn(w))
        IN  /\ ZoneTimesTotal(1) <= Span(w)
            /\ \A j \in 1 .. Len(zone_ranges) : zone_times[zone_ranges[j].name] >= 0
            /\ ZoneTimesTotal(1) = Span(w)
                  <=> \A r \in 1 .. n - 1 : Elapses(w, r) => Matched(w, r)
            /\ ZoneTimesTotal(1) = MinutesInSomeZone(w, 1)

\* a matched sample, then an unmatched one with a later sample behind it, and
\* the workout going on after the last sample: one interval is kept, one dropped
C21_Witness ==
    /\ pc = "zoned"
    /\ Cardinality(SamplesIn(workouts[1])) = 3
    /\ Matched(workouts[1], 1) /\ Elapses(workouts[1], 1)
    /\ ~Matched(workouts[1], 2) /\ Elapses(workouts[1], 2)
    /\ ZoneTimesTotal(1) = 1
    /\ Span(workouts[1]) = 2

\* an unmatched sample stamped like the one behind it: nothing is lost, the
\* whole span is attributed; the workout ends after the last sample
C21_WitnessTie ==
    /\ pc = "zoned"
    /\ Cardinality(SamplesIn(workouts[1])) = 3
    /\ ~Matched(workouts[1], 2) /\ ~Elapses(workouts[1], 2)
    /\ ZoneTimesTotal(1) = Span(workouts[1])
    /\ Span(workouts[1]) > 0
    /\ workouts[1].end_date > AtRank(workouts[1], 3).timestamp

----------------------------------------------------------------------------
(* Record extraction: one entry per distance or energy sample *)

\* the positions of the well-formed records of the given type inside the range
SamplesOfType(type) ==
    {k \in 1 .. Len(archive) :
        IsRecordOf(k, type) /\ HasTimeAndNumber(k) /\ InRange(TimeOf(k))}

\* the kilometres of the distance records at the positions K, added up
RECURSIVE KilometresOf(_)
KilometresOf(K) ==
    IF K = {} THEN Zero
    ELSE LET k == CHOOSE x \in K : TRUE
         IN  FracAdd(ConvertDistance(archive[k].value[1].val, archive[k].unit),
                     KilometresOf(K \ {k}))

\* the stored distances with a timestamp in T, added up as
\* enrich_workouts_with_distance_calories adds them
RECURSIVE StoredKilometres(_)
StoredKilometres(T) ==
    IF T = {} THEN Zero
    ELSE LET t == CHOOSE x \in T : TRUE
         IN  FracAdd(distance_records[t], StoredKilometres(T \ {t}))

\* C22: extract_distance_and_calories returns one entry for every distance record
\* and one for every energy record of the archive inside the time window, so
\* that the sum over the entries of any window of timestamps includes the value
\* of every sample record stamped inside it, also when several records of one
\* type carry the same timestamp.
C22_OneEntryPerSample ==
    pc = "quantities_extracted" =>
        LET ds == SamplesOfType("HKQuantityTypeIdentifierDistanceCycling")
            es == SamplesOfType("HKQuantityTypeIdentifierActiveEnergyBurned")
        IN  /\ Cardinality(DOMAIN distance_records) = Cardinality(ds)
            /\ Cardinality(DOMAIN calorie_records) = Cardinality(es)
            /\ \A lo, hi \in Time :
                  StoredKilometres({t \in DOMAIN distance_records : lo <= t /\ t <= hi})
                      = KilometresOf({k \in ds : lo <= TimeOf(k) /\ TimeOf(k) <= hi})

----------------------------------------------------------------------------
(* parser.py: the three extractor loops, one iteration at a time *)

\* the element the root's events carry
RootElement == [tag |-> "HealthData"]

\* ET.iterparse(xml_file, events=("start", "end")) after next(context) has taken
\* the root's start event: the start and the end event of every element, in
\* document order, then the end event of the root (at: the element's position
\* in the archive, 0 for the root).  The elements of the archive have no
\* children; the events of a child would be those of an element with another tag.
Events(xml) ==
    [n \in 1 .. 2 * Len(xml) + 1 |->
        IF n = 2 * Len(xml) + 1 THEN [event |-> "end", at |-> 0]
        ELSE [event |-> IF n % 2 = 1 THEN "start" ELSE "end", at |-> (n + 1) \div 2]]

ElementAt(xml, at) == IF at = 0 THEN RootElement ELSE xml[at]

\* the locals of each loop before the first iteration; i is the number of events
\* taken from the iterator, elem_cleared the elements elem.clear() was called
\* on, root_cleared the values of the counter at which root.clear() was called
WorkoutLoopLocals ==
    [fn |-> "extract_workouts", i |-> 0, workout_count |-> 0, cycling_count |-> 0,
     elem_cleared |-> {}, root_cleared |-> {}]

HeartRateLoopLocals ==
    [fn |-> "extract_heart_rate_records", i |-> 0, record_count |-> 0, hr_count |-> 0,
     elem_cleared |-> {}, root_cleared |-> {}]

QuantityLoopLocals ==
    [fn |-> "extract_distance_and_calories", i |-> 0, record_count |-> 0,
     distance_count |-> 0, calorie_count |-> 0, elem_cleared |-> {}, root_cleared |-> {}]

\* the try block was left by the `continue` of a date filter, not by an exception
LeftByContinue(parsed) == ~parsed.ok /\ parsed.exc = "none"

\* the loop and the return behind it are over with the last event
AfterEvent(i) == IF i = Len(Events(archive)) THEN "returned" ELSE "looping"

\* one iteration of `for event, elem in context` in extract_workouts; the except
\* clause ends in `continue`, which leaves the iteration before elem.clear() and
\* before the test of workout_count
StepExtractWorkouts ==
    /\ pc = "looping"
    /\ locals.fn = "extract_workouts"
    /\ LET ev == Events(archive)[locals.i + 1]
           elem == ElementAt(archive, ev.at)
           counted == ev.event = "end" /\ elem.tag = "Workout"
           workout_count == locals.workout_count + (IF counted THEN 1 ELSE 0)
           requested == counted /\ elem.workoutActivityType \in WORKOUT_TYPES
           parsed == ParseWorkout(elem)
           continued == requested /\ ~parsed.ok
           at_cadence == ev.event = "end" /\ workout_count % WorkoutClearEvery = 0
       IN  /\ workouts' = IF requested /\ parsed.ok THEN Append(workouts, parsed.val)
                          ELSE workouts
           /\ locals' = [locals EXCEPT
                  !.i = @ + 1,
                  !.workout_count = workout_count,
                  !.cycling_count = @ + (IF requested THEN 1 ELSE 0),
                  !.elem_cleared = IF counted /\ ~continued THEN @ \cup {ev.at} ELSE @,
                  !.root_cleared = IF ~continued /\ at_cadence
                                   THEN @ \cup {workout_count} ELSE @]
           /\ pc' = AfterEvent(locals.i + 1)
    /\ UNCHANGED <<raised, hr_records, distance_records, calorie_records, zone_ranges,
                   zone_times, summary, overall, archive, args, result>>

\* one iteration of the loop of extract_heart_rate_records; both date filters
\* call elem.clear() and `continue`, the except clause ends in `continue`
StepExtractHeartRate ==
    /\ pc = "looping"
    /\ locals.fn = "extract_heart_rate_records"
    /\ LET ev == Events(archive)[locals.i + 1]
           elem == ElementAt(archive, ev.at)
           counted == ev.event = "end" /\ elem.tag = "Record"
           record_count == locals.record_count + (IF counted THEN 1 ELSE 0)
           heart_rate == counted /\ elem.type = "HKQuantityTypeIdentifierHeartRate"
           parsed == ParseHeartRate(elem, args.start_date, args.end_date)
           continued == heart_rate /\ ~parsed.ok
           excepted == continued /\ ~LeftByContinue(parsed)
           at_cadence == ev.event = "end" /\ record_count % RecordClearEvery = 0
       IN  /\ hr_records' = IF heart_rate /\ parsed.ok THEN Append(hr_records, parsed.val)
                            ELSE hr_records
           /\ locals' = [locals EXCEPT
                  !.i = @ + 1,
                  !.record_count = record_count,
                  !.hr_count = @ + (IF heart_rate /\ parsed.ok THEN 1 ELSE 0),
                  !.elem_cleared = IF counted /\ ~excepted THEN @ \cup {ev.at} ELSE @,
                  !.root_cleared = IF ~continued /\ at_cadence
                                   THEN @ \cup {record_count} ELSE @]
           /\ pc' = AfterEvent(locals.i + 1)
    /\ UNCHANGED <<raised, workouts, distance_records, calorie_records, zone_ranges,
                   zone_times, summary, overall, archive, args, result>>

\* one iteration of the loop of extract_distance_and_calories; the date filters
\* call elem.clear() and `continue`, the except clauses fall through to
\* elem.clear() and the test of record_count
StepExtractDistanceAndCalories ==
    /\ pc = "looping"
    /\ locals.fn = "extract_distance_and_calories"
    /\ LET ev == Events(archive)[locals.i + 1]
           elem == ElementAt(archive, ev.at)
           counted == ev.event = "end" /\ elem.tag = "Record"
           record_count == locals.record_count + (IF counted THEN 1 ELSE 0)
           distance == counted /\ elem.type = "HKQuantityTypeIdentifierDistanceCycling"
           energy == counted /\ elem.type = "HKQuantityTypeIdentifierActiveEnergyBurned"
           parsed == ParseQuantity(elem, args.start_date, args.end_date)
           continued == (distance \/ energy) /\ LeftByContinue(parsed)
           at_cadence == ev.event = "end" /\ record_count % RecordClearEvery = 0
       IN  /\ distance_records' =
                  IF distance /\ parsed.ok
                  THEN DictSet(distance_records, parsed.val.timestamp,
                               ConvertDistance(parsed.val.value, elem.unit))
                  ELSE distance_records
           /\ calorie_records' =
                  IF energy /\ parsed.ok
                  THEN DictSet(calorie_records, parsed.val.timestamp,
                               ConvertEnergy(parsed.val.value, elem.unit))
                  ELSE calorie_records
           /\ locals' = [locals EXCEPT
                  !.i = @ + 1,
                  !.record_count = record_count,
                  !.distance_count = @ + (IF distance /\ parsed.ok THEN 1 ELSE 0),
                  !.calorie_count = @ + (IF energy /\ parsed.ok THEN 1 ELSE 0),
                  !.elem_cleared = IF counted THEN @ \cup {ev.at} ELSE @,
                  !.root_cleared = IF ~continued /\ at_cadence
                                   THEN @ \cup {record_count} ELSE @]
           /\ pc' = AfterEvent(locals.i + 1)
    /\ UNCHANGED <<raised, workouts, hr_records, zone_ranges, zone_times, summary,
                   overall, archive, args, result>>

----------------------------------------------------------------------------
(* Traversal: each extractor over an archive of top-level elements *)

\* a cycling and a running workout, heart-rate, distance and energy records
\* that are stored, rejected by an end_date of 0, or fail to parse, and an
\* element that no loop counts
StreamElements ==
    {[tag |-> "Workout", workoutActivityType |-> ty,
      startDate |-> Some(DateText(0, MinusOffset)),
      endDate |-> Some(DateText(1, MinusOffset)), duration |-> Some(NumText(15)),
      totalDistance |-> None, distanceUnit |-> "", totalEnergyBurned |-> None] :
        ty \in {"HKWorkoutActivityTypeCycling", "HKWorkoutActivityTypeRunning"}}
    \cup {RecordElement("HKQuantityTypeIdentifierHeartRate", sd, Some(NumText(120)),
                        "count/min") :
            sd \in {Some(DateText(0, MinusOffset)), Some(DateText(1, MinusOffset)),
                    Some(JunkText)}}
    \cup {RecordElement("HKQuantityTypeIdentifierDistanceCycling", sv[1], sv[2], "km") :
            sv \in {<<Some(DateText(0, MinusOffset)), Some(NumText(3))>>,
                    <<Some(DateText(1, MinusOffset)), Some(NumText(3))>>,
                    <<Some(DateText(0, MinusOffset)), Some(EmptyText)>>}}
    \cup {RecordElement("HKQuantityTypeIdentifierActiveEnergyBurned",
                        Some(DateText(1, MinusOffset)), Some(NumText(50)), "Cal")}
    \cup {[tag |-> "ActivitySummary"]}

InitCadence ==
    /\ pc = "looping"
    /\ raised = "none"
    /\ workouts = <<>>
    /\ hr_records = <<>>
    /\ distance_records = <<>>
    /\ calorie_records = <<>>
    /\ zone_ranges = <<>>
    /\ zone_times = <<>>
    /\ summary = DefaultSummary
    /\ overall = <<>>
    /\ archive \in SeqsUpTo(StreamElements, MaxStream)
    /\ args \in {[start_date |-> None, end_date |-> e] : e \in {None, Some(0)}}
    /\ result = <<>>
    /\ locals \in {WorkoutLoopLocals, HeartRateLoopLocals, QuantityLoopLocals}

NextCadence ==
    \/ StepExtractWorkouts
    \/ StepExtractHeartRate
    \/ StepExtractDistanceAndCalories

SpecCadence == InitCadence /\ [][NextCadence]_vars

\* the loop's count of top-level records, and the cadence it tests it against
Counter == IF locals.fn = "extract_workouts" THEN locals.workout_count
           ELSE locals.record_count

Cadence == IF locals.fn = "extract_workouts" THEN WorkoutClearEvery
           ELSE RecordClearEvery

\* the loops, run to the end, return what the extractors return
StepwiseAgrees ==
    pc = "returned" =>
        /\ locals.fn = "extract_workouts" =>
              workouts = extract_workouts(archive, WORKOUT_TYPES)
        /\ locals.fn = "extract_heart_rate_records" =>
              hr_records = extract_heart_rate_records(archive, args.start_date,
                                                      args.end_date)
        /\ locals.fn = "extract_distance_and_calories" =>
              [distance_records |-> distance_records, calorie_records |-> calorie_records]
                  = extract_distance_and_calories(archive, args.start_date, args.end_date)

\* C23: in each extractor loop the root is released at a fixed cadence of
\* top-level records: every time the count of top-level records reaches a
\* multiple of the cadence, root.clear() is called before the next top-level
\* record is counted, whether the record at that count matched the type
\* predicate, was rejected by the time window, or failed to parse.
C23_RootClearedAtCadence ==
    \A c \in 1 .. Counter - 1 : c % Cadence = 0 => c \in locals.root_cleared

----------------------------------------------------------------------------
(* Correlation stages: both stages, in either order, on extracted workouts *)

\* workouts as they are before the stages, in four windows
StagedWorkouts == {NewWorkout(s, e, 30, 5, 250) : s \in {0, 1}, e \in {0, 1}}

InitStages ==
    /\ pc = <<>>
    /\ raised = "none"
    /\ workouts \in SeqsUpTo(StagedWorkouts, MaxStaged)
    /\ hr_records \in SeqsUpTo(HRSamples, 1)
    /\ distance_records \in Dicts({0, 1}, DistanceValues)
    /\ calorie_records \in Dicts({0}, CalorieValues)
    /\ zone_ranges = <<>>
    /\ zone_times = <<>>
    /\ summary = DefaultSummary
    /\ overall = <<>>
    /\ archive = <<>>
    /\ args = <<>>
    /\ result = <<>>
    /\ locals = <<>>

NextStages == CorrelateHeartRate \/ CorrelateDistanceEnergy

SpecStages == InitStages /\ [][NextStages]_vars

HeartRateFields == {"avg_heart_rate", "max_heart_rate", "min_heart_rate"}

\* the workout's distance, as a dataclass field and as the attribute the stage
\* creates, and its calories
DistanceEnergyFields == {"distance_miles", "distance_km", "calories"}

\* the step leaves the list of workouts as long as it was, every workout in its
\* place and with every field outside `owned` as it was
WritesOnly(owned) ==
    /\ Len(workouts') = Len(workouts)
    /\ \A i \in 1 .. Len(workouts) :
          /\ DOMAIN workouts'[i] = DOMAIN workouts[i]
          /\ \A f \in DOMAIN workouts[i] \ owned : workouts'[i][f] = workouts[i][f]

\* C24: each correlation stage writes only the fields it owns:
\* match_heart_rate_to_workouts changes no workout field other than avg/max/min
\* heart rate, enrich_workouts_with_distance_calories changes or creates no
\* workout field other than the workout's distance and calories; neither stage
\* adds, removes or reorders workouts, nor modifies the samples it is given.
C24_StagesWriteOwnFields ==
    [][/\ pc' = Append(pc, "heart_rate") => WritesOnly(HeartRateFields)
       /\ pc' = Append(pc, "distance_energy") => WritesOnly(DistanceEnergyFields)
       /\ hr_records' = hr_records
       /\ distance_records' = distance_records
       /\ calorie_records' = calorie_records]_vars

\* two different workouts after both stages: the first has its heart rate, its
\* calories and a distance written, the second, without any sample, is as it was
C24_Witness ==
    /\ Len(pc) = 2
    /\ Len(workouts) = 2
    /\ workouts[1].avg_heart_rate # None
    /\ workouts[1].distance_km # None
    /\ workouts[1].calories = 60
    /\ workouts[2] \in StagedWorkouts
    /\ workouts[2].start_date # workouts[1].start_date

----------------------------------------------------------------------------
(* Life of a workout: the order of its two dates *)

----------------------------------------------------------------------------
(* Zone time: the order in which the samples are supplied *)

\* one workout over all the sample times, or over all but the first
InitOrder ==
    /\ pc = "ready"
    /\ workouts \in {<<NewWorkout(s, MaxTime, 30, 5, 250)>> : s \in {0, 1}}
    /\ hr_records \in SeqsUpTo(HRSamples, MaxSamples)
    /\ distance_records = <<>>
    /\ calorie_records = <<>>
    /\ zone_ranges \in ZoneTables
    /\ archive = <<>>
    /\ Unused

NextOrder == CalculateHrZoneTime

SpecOrder == InitOrder /\ [][NextOrder]_vars

\* the orders in which n samples can be supplied
Orders ==
    [n \in 0 .. MaxSamples |->
        {p \in [1 .. n -> 1 .. n] : \A i, j \in 1 .. n : i # j => p[i] # p[j]}]

\* the samples s in the order p
Permuted(s, p) == [i \in 1 .. Len(s) |-> s[p[i]]]

\* the order p leaves samples of one timestamp in the order they have in s
KeepsTies(s, p) ==
    \A i, j \in 1 .. Len(s) :
        (i < j /\ s[p[i]].timestamp = s[p[j]].timestamp) => p[i] < p[j]

\* C26 as stated: the result of calculate_hr_zone_time is that of the
\* time-sorted input for every order of the same samples, timestamps not
\* necessarily distinct, and no zone is given a negative time.
C26_AnyOrderSameResult ==
    pc = "zoned" =>
        /\ \A p \in Orders[Len(hr_records)] :
              calculate_hr_zone_time(Permuted(hr_records, p), workouts[1], zone_ranges)
                  = zone_times
        /\ \A j \in 1 .. Len(zone_ranges) : zone_times[zone_ranges[j].name] >= 0

\* C26: calculate_hr_zone_time sorts the in-window samples by timestamp before
\* pairing them: it returns the same minutes per zone as for the time-sorted
\* input, and the same for every order of the same samples that keeps samples
\* of equal timestamp in their relative order (so for every order when the
\* timestamps are distinct); every attributed interval is >= 0.
C26_SameResultKeepingTies ==
    pc = "zoned" =>
        /\ zone_times = calculate_hr_zone_time(SortedByTimestamp(hr_records),
                                               workouts[1], zone_ranges)
        /\ \A p \in Orders[Len(hr_records)] :
              KeepsTies(hr_records, p) =>
                  calculate_hr_zone_time(Permuted(hr_records, p), workouts[1], zone_ranges)
                      = zone_times
        /\ \A j \in 1 .. Len(zone_ranges) : zone_times[zone_ranges[j].name] >= 0
        /\ \A r \in 1 .. Cardinality(SamplesIn(workouts[1])) - 1 :
              AtRank(workouts[1], r + 1).timestamp >= AtRank(workouts[1], r).timestamp

\* three samples of three times supplied latest first, in two zones: sorted,
\* they give both zones a minute
C26_Witness ==
    /\ pc = "zoned"
    /\ Len(hr_records) = 3
    /\ Cardinality(SamplesIn(workouts[1])) = 3
    /\ hr_records[1].timestamp > hr_records[2].timestamp
    /\ hr_records[2].timestamp > hr_records[3].timestamp
    /\ hr_records[3].bpm # hr_records[2].bpm
    /\ Cardinality({j \in 1 .. Len(zone_ranges) : zone_times[zone_ranges[j].name] = 1}) = 2

----------------------------------------------------------------------------
(* Zones of all workouts: workouts that share time *)

\* three workouts, each overlapping the other two
OverlappingWorkouts ==
    {NewWorkout(0, 1, 30, 5, 250), NewWorkout(0, 2, 60, 10, 500),
     NewWorkout(1, 2, 30, 5, 250)}

InitZoneTotals ==
    /\ pc = "ready"
    /\ raised = "none"
    /\ workouts \in SeqsUpTo(OverlappingWorkouts, MaxStaged)
    /\ hr_records \in SeqsUpTo(ZoneSamples, MaxZoneSamples)
    /\ distance_records = <<>>
    /\ calorie_records = <<>>
    /\ zone_ranges = <<>>
    /\ zone_times = <<>>
    /\ summary = DefaultSummary
    /\ overall = <<>>
    /\ archive = <<>>
    /\ args \in {[max_heart_rate |-> 185, zone_definitions |-> zd] :
                    zd \in ZoneDefinitionTables}
    /\ result = <<>>
    /\ locals = <<>>

NextZoneTotals == CalculateHrZones

SpecZoneTotals == InitZoneTotals /\ [][NextZoneTotals]_vars

\* the minutes calculate_hr_zone_time attributes to zone z, added up over the
\* workouts from index i on
RECURSIVE ZoneMinutesFrom(_, _)
ZoneMinutesFrom(z, i) ==
    IF i > Len(workouts) THEN 0
    ELSE calculate_hr_zone_time(hr_records, workouts[i], zone_ranges)[z]
             + ZoneMinutesFrom(z, i + 1)

\* C27: calculate_hr_zones returns exactly one HeartRateZone per configured zone
\* name, whose time_minutes is the sum over all given workouts of the minutes
\* calculate_hr_zone_time attributes to that zone for that workout (time shared
\* by overlapping workouts counts once per workout), and is 0 for every zone
\* when there are no workouts or no samples.
C27_ZoneTotalsOverWorkouts ==
    pc = "zones" =>
        /\ DOMAIN result = {args.zone_definitions[j].name :
                               j \in 1 .. Len(args.zone_definitions)}
        /\ \A z \in DOMAIN result :
              /\ result[z].zone_name = z
              /\ result[z].time_minutes = ZoneMinutesFrom(z, 1)
              /\ (workouts = <<>> \/ hr_records = <<>>) => result[z].time_minutes = 0

\* two workouts over the same two samples a minute apart: the zone of the
\* earlier sample has two minutes, one from each workout
C27_Witness ==
    /\ pc = "zones"
    /\ Len(workouts) = 2
    /\ workouts[1] # workouts[2]
    /\ Len(hr_records) = 2
    /\ hr_records[2].timestamp - hr_records[1].timestamp = 1
    /\ \A i \in 1 .. 2 : SamplesIn(workouts[i]) = {1, 2}
    /\ \E z \in DOMAIN result :
          /\ result[z].time_minutes = 2
          /\ calculate_hr_zone_time(hr_records, workouts[1], zone_ranges)[z] = 1
          /\ calculate_hr_zone_time(hr_records, workouts[2], zone_ranges)[z] = 1

----------------------------------------------------------------------------
(* analyzer.py: aggregate_by_year and aggregate_by_month *)

\* the year of the day the workout ends
YearOfEnd(w) == Year(w.end_date)

\* Workout.year and Workout.month: of start_date
year(w) == Year(w.start_date)
month(w) == Month(w.start_date)

\* WorkoutSummary(workouts=ws): the statistics at their defaults
WorkoutSummary(ws) == DefaultSummary @@ [workouts |-> ws]

\* summary = WorkoutSummary(workouts=ws); summary.calculate_stats()
Summarised(ws) == calculate_stats(WorkoutSummary(ws), ws)

\* yearly_workouts[workout.year].append(workout) for every workout, then a
\* summary per key
aggregate_by_year(ws) ==
    [y \in {year(ws[i]) : i \in 1 .. Len(ws)} |->
        LET OfYear(w) == year(w) = y
        IN  Summarised(SelectSeq(ws, OfYear))]

\* the same with the key (workout.year, workout.month)
aggregate_by_month(ws) ==
    [key \in {<<year(ws[i]), month(ws[i])>> : i \in 1 .. Len(ws)} |->
        LET OfMonth(w) == <<year(w), month(w)>> = key
        IN  Summarised(SelectSeq(ws, OfMonth))]

----------------------------------------------------------------------------
(* Aggregation: both aggregations of analyze_data on workouts of two years *)

\* short workouts that end in the tick they start in, and long ones that end a
\* day later
AggregatedWorkouts ==
    {NewWorkout(s, s, 30, 5, 250) : s \in StartTimes}
    \cup {NewWorkout(s, s + TicksPerDay, 45, 8, 400) : s \in StartTimes}

InitAggregate ==
    /\ pc = "ready"
    /\ workouts \in SeqsUpTo(AggregatedWorkouts, MaxGroup)
    /\ hr_records = <<>>
    /\ distance_records = <<>>
    /\ calorie_records = <<>>
    /\ zone_ranges = <<>>
    /\ archive = <<>>
    /\ Unused

\* yearly_summaries = aggregate_by_year(workouts)
AggregateByYear ==
    /\ pc = "ready"
    /\ result' = [yearly_summaries |-> aggregate_by_year(workouts)]
    /\ pc' = "by_year"
    /\ UNCHANGED <<raised, workouts, hr_records, distance_records, calorie_records,
                   zone_ranges, zone_times, summary, overall, archive, args, locals>>

\* monthly_summaries = aggregate_by_month(workouts)
AggregateByMonth ==
    /\ pc = "by_year"
    /\ result' = [yearly_summaries |-> result.yearly_summaries,
                  monthly_summaries |-> aggregate_by_month(workouts)]
    /\ pc' = "by_month"
    /\ UNCHANGED <<raised, workouts, hr_records, distance_records, calorie_records,
                   zone_ranges, zone_times, summary, overall, archive, args, locals>>

NextAggregate == AggregateByYear \/ AggregateByMonth

SpecAggregate == InitAggregate /\ [][NextAggregate]_vars

\* the positions of the workouts that start in year y / in month m of year y
StartingInYear(y) == {i \in 1 .. Len(workouts) : Year(workouts[i].start_date) = y}

StartingInMonth(y, m) ==
    {i \in StartingInYear(y) : Month(workouts[i].start_date) = m}

\* the group holds the workouts at the positions I, each as often as I does
GroupIs(group, I) ==
    /\ Len(group) = Cardinality(I)
    /\ \A i \in 1 .. Len(workouts) :
          Cardinality({k \in 1 .. Len(group) : group[k] = workouts[i]})
              = Cardinality({j \in I : workouts[j] = workouts[i]})

\* a statistic of the summaries d added up over the keys K
RECURSIVE TotalOver(_, _, _)
TotalOver(d, K, field) ==
    IF K = {} THEN 0
    ELSE LET k == CHOOSE x \in K : TRUE
         IN  d[k][field] + TotalOver(d, K \ {k}, field)

\* C28: aggregate_by_year and aggregate_by_month partition the workouts: every
\* workout is in exactly one group, that of its start year (of its start year
\* and month), no returned group is empty, the groups' total_workouts add up to
\* the number of workouts, and for every year the counts and the distance,
\* duration and calorie totals of its monthly summaries add up to the yearly
\* summary's.
C28_GroupsPartition ==
    pc = "by_month" =>
        LET yearly == result.yearly_summaries
            monthly == result.monthly_summaries
        IN  /\ DOMAIN yearly = {Year(workouts[i].start_date) : i \in 1 .. Len(workouts)}
            /\ DOMAIN monthly = {<<Year(workouts[i].start_date),
                                   Month(workouts[i].start_date)>> : i \in 1 .. Len(workouts)}
            /\ \A y \in DOMAIN yearly :
                  /\ GroupIs(yearly[y].workouts, StartingInYear(y))
                  /\ yearly[y].workouts # <<>>
                  /\ yearly[y].total_workouts = Len(yearly[y].workouts)
            /\ \A key \in DOMAIN monthly :
                  /\ GroupIs(monthly[key].workouts, StartingInMonth(key[1], key[2]))
                  /\ monthly[key].workouts # <<>>
                  /\ monthly[key].total_workouts = Len(monthly[key].workouts)
            /\ TotalOver(yearly, DOMAIN yearly, "total_workouts") = Len(workouts)
            /\ TotalOver(monthly, DOMAIN monthly, "total_workouts") = Len(workouts)
            /\ \A y \in DOMAIN yearly :
                  \A field \in {"total_workouts", "total_distance_miles",
                                "total_duration_minutes", "total_calories"} :
                      TotalOver(monthly, {key \in DOMAIN monthly : key[1] = y}, field)
                          = yearly[y][field]

\* two workouts of one year and two of its months, the first ending in the next
\* year: one yearly summary of both, two monthly summaries
C28_Witness ==
    /\ pc = "by_month"
    /\ Len(workouts) = 2
    /\ Year(workouts[1].end_date) > Year(workouts[1].start_date)
    /\ Cardinality(DOMAIN result.yearly_summaries) = 1
    /\ Cardinality(DOMAIN result.monthly_summaries) = 2
    /\ \E y \in DOMAIN result.yearly_summaries :
          result.yearly_summaries[y].total_distance_miles = 13

----------------------------------------------------------------------------
(* Heart-rate correlation: calls repeated, with the same and with other samples *)

\* samples of two times
RematchSamples == {HeartRateRecord(t, b) : t \in {0, 1}, b \in BpmValues}

InitRematch ==
    /\ pc = "ready"
    /\ workouts \in SeqsUpTo(StagedWorkouts, MaxStaged)
    /\ hr_records \in SeqsUpTo(RematchSamples, 2)
    /\ distance_records = <<>>
    /\ calorie_records = <<>>
    /\ zone_ranges = <<>>
    /\ archive = <<>>
    /\ Unused

\* match_heart_rate_to_workouts(workouts, hrs) with a list of samples of the
\* caller's choice
MatchOtherSamples ==
    /\ pc \in {"ready", "matched"}
    /\ \E hrs \in SeqsUpTo(RematchSamples, 2) :
          /\ hr_records' = hrs
          /\ workouts' = match_heart_rate_to_workouts(workouts, hrs)
    /\ pc' = "matched"
    /\ UNCHANGED <<raised, distance_records, calorie_records, zone_ranges,
                   zone_times, summary, overall, archive, args, result, locals>>

NextRematch == MatchHeartRate \/ MatchOtherSamples

SpecRematch == InitRematch /\ [][NextRematch]_vars

\* the three heart-rate fields of w are all unset, or all set and in order
UnsetOrOrdered(w) ==
    \/ w.avg_heart_rate = None /\ w.max_heart_rate = None /\ w.min_heart_rate = None
    \/ /\ w.avg_heart_rate # None /\ w.max_heart_rate # None /\ w.min_heart_rate # None
       /\ FracLe(FracInt(w.min_heart_rate[1]), w.avg_heart_rate[1])
       /\ FracLe(w.avg_heart_rate[1], FracInt(w.max_heart_rate[1]))

\* C29: after any sequence of match_heart_rate_to_workouts calls the three
\* heart-rate fields of every workout are either all unset or all set, and when
\* set min_heart_rate <= avg_heart_rate <= max_heart_rate; a call that follows a
\* call with the same samples changes nothing.
C29_AllOrNoneAndIdempotent ==
    /\ [](\A i \in 1 .. Len(workouts) : UnsetOrOrdered(workouts[i]))
    /\ [][(pc = "matched" /\ pc' = "matched" /\ hr_records' = hr_records)
             => workouts' = workouts]_vars

\* after a call with samples that miss the first workout's window: it keeps
\* the minimum, mean and maximum an earlier call gave it, the second workout
\* has never had a sample and has no field set
C29_Witness ==
    /\ pc = "matched"
    /\ Len(workouts) = 2
    /\ SamplesIn(workouts[1]) = {}
    /\ hr_records # <<>>
    /\ workouts[1].min_heart_rate = Some(100)
    /\ workouts[1].avg_heart_rate = Some(FracInt(110))
    /\ workouts[1].max_heart_rate = Some(120)
    /\ workouts[2].avg_heart_rate = None
    /\ workouts[2].max_heart_rate = None
    /\ workouts[2].min_heart_rate = None

----------------------------------------------------------------------------
(* gpx_parser.py: what enrich_workouts_with_elevation writes, and analyzer.py:
   get_top_workouts *)

\* workout.elevation_gain_m = elevation_gain, and so on: three attributes the
\* dataclass does not declare, created on the workouts matched to a GPX file
WithGpxElevation(w, elevation_gain, elevation_loss, max_elevation) ==
    w @@ [elevation_gain_m |-> elevation_gain, elevation_loss_m |-> elevation_loss,
          max_elevation_m |-> max_elevation]

\* the dataclass fields of type Optional[float]
OptionalFields ==
    {"elevation_gain_ft", "avg_heart_rate", "max_heart_rate", "min_heart_rate"}

\* getattr(w, metric, 0), for a workout whose attribute, if there, is a number
GetAttr(w, metric) ==
    IF metric \notin DOMAIN w THEN 0
    ELSE IF metric \in OptionalFields THEN Get(w[metric])
    ELSE w[metric]

\* sorted(..., key=lambda w: getattr(w, metric, 0), reverse=True): x goes behind
\* the workouts whose key is not smaller (equal keys keep their order)
RECURSIVE InsertByMetric(_, _, _)
InsertByMetric(x, s, metric) ==
    IF s = <<>> THEN <<x>>
    ELSE IF GetAttr(x, metric) > GetAttr(Head(s), metric) THEN <<x>> \o s
         ELSE <<Head(s)>> \o InsertByMetric(x, Tail(s), metric)

RECURSIVE SortedByMetric(_, _)
SortedByMetric(s, metric) ==
    IF s = <<>> THEN <<>>
    ELSE InsertByMetric(s[Len(s)], SortedByMetric(SubSeq(s, 1, Len(s) - 1), metric),
                        metric)

\* get_top_workouts(workouts, metric, top_n), for top_n >= 0
get_top_workouts(ws, metric, top_n) ==
    LET HasGain(w) == ~IsNone(w.elevation_gain_ft)
        filtered == IF metric = "elevation_gain_ft" THEN SelectSeq(ws, HasGain) ELSE ws
        sorted_workouts == SortedByMetric(filtered, metric)
    IN  SubSeq(sorted_workouts, 1, IF top_n < Len(sorted_workouts) THEN top_n
                                   ELSE Len(sorted_workouts))

----------------------------------------------------------------------------
(* Top workouts: get_top_workouts by the documented metrics and by the metric
   analyze_data names *)

\* the metrics of the docstring, and "elevation_gain_m" of main.py
Metrics ==
    {"distance_miles", "duration_minutes", "calories", "elevation_gain_ft",
     "elevation_gain_m"}

\* workouts without elevation data, with an elevation_gain_ft given to the
\* constructor, and with the attributes of a matched GPX file
RankedWorkouts ==
    LET base == {[start_date |-> 0, end_date |-> 0, duration_minutes |-> l[1],
                  distance_miles |-> l[2], calories |-> 250,
                  source_name |-> "Apple Watch"] : l \in {<<30, 5>>, <<45, 8>>}}
    IN  {Workout(k) : k \in base}
        \cup {Workout(k @@ [elevation_gain_ft |-> Some(g)]) : k \in base, g \in {100, 300}}
        \cup {WithGpxElevation(Workout(k), g, 50, 900) : k \in base, g \in {100, 300}}

InitTop ==
    /\ pc = "ready"
    /\ raised = "none"
    /\ workouts \in SeqsUpTo(RankedWorkouts, MaxGroup)
    /\ hr_records = <<>>
    /\ distance_records = <<>>
    /\ calorie_records = <<>>
    /\ zone_ranges = <<>>
    /\ zone_times = <<>>
    /\ summary = DefaultSummary
    /\ overall = <<>>
    /\ archive = <<>>
    /\ args \in {[metric |-> m, top_n |-> n] : m \in Metrics, n \in 0 .. MaxTop}
    /\ result = <<>>
    /\ locals = <<>>

\* top = get_top_workouts(workouts, metric=..., top_n=...)
GetTopWorkouts ==
    /\ pc = "ready"
    /\ result' = get_top_workouts(workouts, args.metric, args.top_n)
    /\ pc' = "ranked"
    /\ UNCHANGED <<raised, workouts, hr_records, distance_records, calorie_records,
                   zone_ranges, zone_times, summary, overall, archive, args, locals>>

NextTop == GetTopWorkouts

SpecTop == InitTop /\ [][NextTop]_vars

\* the workout carries a value of the metric: any workout for the metrics every
\* workout has, one with an elevation gain for the two elevation metrics
Carries(w, metric) ==
    IF metric = "elevation_gain_ft" THEN w.elevation_gain_ft # None
    ELSE IF metric = "elevation_gain_m" THEN "elevation_gain_m" \in DOMAIN w
    ELSE TRUE

Eligible == {i \in 1 .. Len(workouts) : Carries(workouts[i], args.metric)}

\* how often the workout w is in the sequence s at the positions I
CountIn(s, I, w) == Cardinality({i \in I : s[i] = w})

\* C30: get_top_workouts(workouts, metric, top_n) returns min(top_n, number of
\* eligible workouts) workouts in non-increasing order of the metric, each with
\* a value >= that of every eligible workout not returned; for the
\* elevation-gain metric, as the pipeline names it, workouts that carry no
\* elevation value are not eligible and are never returned.
C30_TopOfEligible ==
    pc = "ranked" =>
        LET n == Cardinality(Eligible)
            returned == 1 .. Len(result)
        IN  /\ Len(result) = IF args.top_n < n THEN args.top_n ELSE n
            /\ \A k \in returned : Carries(result[k], args.metric)
            /\ \A k \in returned :
                  CountIn(result, returned, result[k])
                      <= CountIn(workouts, Eligible, result[k])
            /\ \A k \in returned : k > 1 =>
                  GetAttr(result[k - 1], args.metric) >= GetAttr(result[k], args.metric)
            /\ \A i \in Eligible :
                  CountIn(result, returned, workouts[i])
                          < CountIn(workouts, Eligible, workouts[i])
                      => \A k \in returned :
                            GetAttr(result[k], args.metric)
                                >= GetAttr(workouts[i], args.metric)

\* the same for the metrics of the docstring only
TopOfEligibleDocumented == args.metric # "elevation_gain_m" => C30_TopOfEligible

====
